---------------------------- MODULE Spec2Model ----------------------------
(***************************************************************************)
(* A model of dynamiqs' lazy time-dependent operators (time_tensor.py) and *)
(* of the batching and validation logic of sesolve / smesolve.             *)
(*                                                                         *)
(* Tensors are records [shape, data, dtype, device]: `shape` is a sequence *)
(* of sizes, `data` the elements in row-major order.  Elements are complex *)
(* numbers with integer parts, <<re, im>>, so that sums and products are   *)
(* exact.  Times are natural numbers.                                      *)
(***************************************************************************)
EXTENDS Integers, Sequences, FiniteSets, TLC

\* ------------------------------------------------------------------ bounds
\* matrix dimension n of the operators
N == 2
\* times range over 0..MaxT
MaxT == 5
\* number of operator objects alive in the algebra specification
MaxOps == 3
\* number of operator objects alive in the evaluation specification
MaxCallOps == 2
\* number of tensor objects the evaluations create
MaxObj == 2
\* number of operator objects alive in the construction specification
MaxTotimeOps == 1
\* batch sizes of the arguments of the solve calls
MaxB == 3
MaxSteps == 4
MaxAddOps == 2

TimeSet == 0..MaxT
\* the times operators are evaluated at in the evaluation specifications
CallTimes == {0, 1}

\* ----------------------------------------------------------- complex numbers
CZero == <<0, 0>>
CAdd(a, b) == <<a[1] + b[1], a[2] + b[2]>>
CMul(a, b) == <<a[1] * b[1] - a[2] * b[2], a[1] * b[2] + a[2] * b[1]>>
CNeg(a) == <<0 - a[1], 0 - a[2]>>
CConj(a) == <<a[1], 0 - a[2]>>

\* ------------------------------------------------------------------ shapes
RECURSIVE Prod(_)
Prod(s) == IF s = <<>> THEN 1 ELSE Head(s) * Prod(Tail(s))

Max2(a, b) == IF a >= b THEN a ELSE b

\* the strides of a contiguous tensor of shape s
Strides(s) == [d \in 1..Len(s) |-> Prod(SubSeq(s, d + 1, Len(s)))]

\* the multi-index (0-based components) of the 0-based flat index i, for the
\* shape s with strides st
Unravel(i, s, st) == [d \in 1..Len(s) |-> (i \div st[d]) % s[d]]

RECURSIVE RavelFrom(_, _, _)
RavelFrom(idx, st, d) ==
    IF d > Len(st) THEN 0 ELSE idx[d] * st[d] + RavelFrom(idx, st, d + 1)

\* the 0-based flat index of the multi-index idx, for strides st
Ravel(idx, st) == RavelFrom(idx, st, 1)

\* size of the dimension of s that is aligned with dimension d of a shape of
\* length len (shapes are aligned on the right, missing dimensions count 1)
AlignedDim(s, len, d) ==
    IF d - (len - Len(s)) >= 1 THEN s[d - (len - Len(s))] ELSE 1

Broadcastable(s1, s2) ==
    LET len == Max2(Len(s1), Len(s2))
    IN  \A d \in 1..len :
            \/ AlignedDim(s1, len, d) = AlignedDim(s2, len, d)
            \/ AlignedDim(s1, len, d) = 1
            \/ AlignedDim(s2, len, d) = 1

BroadcastShape(s1, s2) ==
    LET len == Max2(Len(s1), Len(s2))
    IN  [d \in 1..len |->
            IF AlignedDim(s1, len, d) = 1
            THEN AlignedDim(s2, len, d)
            ELSE AlignedDim(s1, len, d)]

\* the 0-based flat index in a tensor of shape s (strides st) of the element
\* that broadcasting places at multi-index idx of the shape bs
BroadcastIndex(idx, bs, s, st) ==
    LET off == Len(bs) - Len(s)
    IN  Ravel([d \in 1..Len(s) |-> IF s[d] = 1 THEN 0 ELSE idx[d + off]], st)

\* for each 1-based flat index of the shape bs, the 1-based flat index of the
\* element of a tensor of shape s that broadcasting places there
BroadcastMap(bs, s) ==
    LET bst == Strides(bs)
        st == Strides(s)
    IN  [i \in 1..Prod(bs) |-> BroadcastIndex(Unravel(i - 1, bs, bst), bs, s, st) + 1]

\* ----------------------------------------------------------------- tensors
\* dtypes: c64 / c128 complex, f32 / f64 their real counterparts
DTypes == {"c64", "c128", "f32", "f64"}
Devices == {"cpu", "cuda"}

\* utils.tensor_types.dtype_complex_to_real
dtype_complex_to_real(dtype) ==
    IF dtype = "c64" THEN "f32" ELSE IF dtype = "c128" THEN "f64" ELSE dtype

IsComplexDType(dtype) == dtype \in {"c64", "c128"}

\* torch's type promotion between the four dtypes
PromoteDType(d1, d2) ==
    LET wide == d1 \in {"c128", "f64"} \/ d2 \in {"c128", "f64"}
        cplx == IsComplexDType(d1) \/ IsComplexDType(d2)
    IN  IF cplx THEN (IF wide THEN "c128" ELSE "c64")
        ELSE (IF wide THEN "f64" ELSE "f32")

Tensor(shape, data, dtype, device) ==
    [shape |-> shape, data |-> data, dtype |-> dtype, device |-> device]

\* elementwise binary operation with broadcasting
TBroadcastOp(Op(_, _), a, b) ==
    IF a.shape = b.shape
    THEN Tensor(a.shape, [i \in 1..Len(a.data) |-> Op(a.data[i], b.data[i])],
                PromoteDType(a.dtype, b.dtype), a.device)
    ELSE LET bs == BroadcastShape(a.shape, b.shape)
             ma == BroadcastMap(bs, a.shape)
             mb == BroadcastMap(bs, b.shape)
         IN  Tensor(bs, [i \in 1..Prod(bs) |-> Op(a.data[ma[i]], b.data[mb[i]])],
                    PromoteDType(a.dtype, b.dtype), a.device)

TAdd(a, b) == TBroadcastOp(CAdd, a, b)
TMul(a, b) == TBroadcastOp(CMul, a, b)

\* tensor * python number
TScale(a, c) == [a EXCEPT !.data = [i \in 1..Len(a.data) |-> CMul(a.data[i], c)]]
TNeg(a) == [a EXCEPT !.data = [i \in 1..Len(a.data) |-> CNeg(a.data[i])]]
TConj(a) == [a EXCEPT !.data = [i \in 1..Len(a.data) |-> CConj(a.data[i])]]

\* Tensor.adjoint() / Tensor.mH: conjugate, and transpose the last two dimensions
TAdjoint(a) ==
    LET k == Len(a.shape)
        ts == [d \in 1..k |-> IF d = k - 1 THEN a.shape[k]
                              ELSE IF d = k THEN a.shape[k - 1] ELSE a.shape[d]]
        tst == Strides(ts)
        ast == Strides(a.shape)
        src(i) == LET idx == Unravel(i - 1, ts, tst)
                  IN  Ravel([d \in 1..k |-> IF d = k - 1 THEN idx[k]
                                            ELSE IF d = k THEN idx[k - 1]
                                            ELSE idx[d]], ast) + 1
    IN  [a EXCEPT !.shape = ts,
                  !.data = [i \in 1..Len(a.data) |-> CConj(a.data[src(i)])]]

\* the shape a view is given, with one -1 replaced by the size that is left
InferShape(shape, numel) ==
    LET known == Prod([d \in 1..Len(shape) |-> IF shape[d] = -1 THEN 1 ELSE shape[d]])
    IN  [d \in 1..Len(shape) |-> IF shape[d] = -1 THEN numel \div known ELSE shape[d]]

ViewOK(a, shape) == Prod(InferShape(shape, Prod(a.shape))) = Prod(a.shape)

\* Tensor.view(*shape): the same elements in the same order
TView(a, shape) == [a EXCEPT !.shape = InferShape(shape, Prod(a.shape))]

ExpandOK(a, shape) ==
    /\ Len(shape) >= Len(a.shape)
    /\ \A d \in 1..Len(shape) :
          AlignedDim(a.shape, Len(shape), d) \in {1, shape[d]}

\* Tensor.expand(*shape)
TExpand(a, shape) ==
    IF a.shape = shape THEN a
    ELSE LET m == BroadcastMap(shape, a.shape)
         IN  Tensor(shape, [i \in 1..Prod(shape) |-> a.data[m[i]]], a.dtype, a.device)

\* torch.zeros_like
TZerosLike(a) == [a EXCEPT !.data = [i \in 1..Len(a.data) |-> CZero]]

\* a[k] for the 0-based index k of the first dimension
TSelectFirst(a, k) ==
    LET rest == Tail(a.shape)
    IN  [a EXCEPT !.shape = rest,
                  !.data = SubSeq(a.data, k * Prod(rest) + 1, (k + 1) * Prod(rest))]

\* a[..., k] for the 0-based index k of the last dimension
TSelectLast(a, k) ==
    LET rest == SubSeq(a.shape, 1, Len(a.shape) - 1)
        nl == a.shape[Len(a.shape)]
    IN  [a EXCEPT !.shape = rest,
                  !.data = [i \in 1..Prod(rest) |-> a.data[(i - 1) * nl + k + 1]]]

\* torch.stack(ts, dim=-1) of a non-empty list of tensors of one shape
TStackLast(ts) ==
    LET s == ts[1].shape
        nf == Len(ts)
    IN  Tensor(s \o <<nf>>,
               [i \in 1..(Prod(s) * nf) |->
                   ts[((i - 1) % nf) + 1].data[((i - 1) \div nf) + 1]],
               ts[1].dtype, ts[1].device)

\* torch.cat((a, b)): along the first dimension
TCat(a, b) ==
    [a EXCEPT !.dtype = PromoteDType(a.dtype, b.dtype),
              !.shape = <<a.shape[1] + b.shape[1]>> \o Tail(a.shape),
              !.data = a.data \o b.data]

\* Tensor.unsqueeze(0)
TUnsqueeze0(a) == [a EXCEPT !.shape = <<1>> \o a.shape]

RECURSIVE CSumSeq(_)
CSumSeq(s) == IF s = <<>> THEN CZero ELSE CAdd(Head(s), CSumSeq(Tail(s)))

\* Tensor.sum(-3) of a tensor of at least three dimensions
TSumM3(a) ==
    LET k == Len(a.shape)
        rs == SubSeq(a.shape, 1, k - 3) \o SubSeq(a.shape, k - 1, k)
        nf == a.shape[k - 2]
        inner == a.shape[k - 1] * a.shape[k]
    IN  [a EXCEPT !.shape = rs,
                  !.data = [i \in 1..Prod(rs) |->
                      CSumSeq([f \in 1..nf |->
                          a.data[((i - 1) \div inner) * nf * inner
                                 + (f - 1) * inner + ((i - 1) % inner) + 1]])]]

\* ------------------------------------------------------ breakpoint search
\* torch.searchsorted(times, t, side='left') for a sorted sequence: the number
\* of elements < t
SearchSortedLeft(times, t) == Cardinality({i \in 1..Len(times) : times[i] < t})

\* torch.searchsorted(times, t, side='right'): the number of elements <= t
SearchSortedRight(times, t) == Cardinality({i \in 1..Len(times) : times[i] <= t})

SetMin(S) == CHOOSE x \in S : \A y \in S : x <= y

RECURSIVE SetToSortedSeq(_)
SetToSortedSeq(S) ==
    IF S = {} THEN <<>> ELSE <<SetMin(S)>> \o SetToSortedSeq(S \ {SetMin(S)})

SeqRange(s) == {s[i] : i \in 1..Len(s)}

\* ------------------------------------------------------- python functions
\* A function object is a tree: a function supplied by the caller, or one of the
\* lambdas the operators build around the function they hold.
UserFn(id) == [k |-> "user", id |-> id]

\* The functions callers supply.  1, 2: t -> matrix.  3: returns a python
\* number.  4: a matrix of a real dtype.  5: a matrix on another device.
\* 6: a matrix whose dtype is the declared one at t = 0 only.
\* 11, 12: t -> complex scalar.  13: a real scalar of the same precision.
\* 14: a real scalar of another precision.  15: a scalar on another device.
\* 16: returns a python number.
BaseMatrix(k, dtype, device) ==
    Tensor(<<N, N>>,
           [e \in 1..(N * N) |-> <<k + e, ((e - 1) % N) - k * ((e - 1) \div N)>>],
           dtype, device)

ScalarTensor(c, dtype, device) == Tensor(<<>>, <<c>>, dtype, device)

PyNumber(c) == [shape |-> <<>>, data |-> <<c>>, dtype |-> "pyfloat", device |-> "none"]

UserCall(id, t) ==
    CASE id = 1 -> TAdd(BaseMatrix(1, "c64", "cpu"),
                        TScale(BaseMatrix(2, "c64", "cpu"), <<t, 0>>))
      [] id = 2 -> TScale(BaseMatrix(3, "c64", "cpu"), <<1, t>>)
      [] id = 3 -> PyNumber(<<t, 0>>)
      [] id = 4 -> TScale(BaseMatrix(1, "f32", "cpu"), <<t + 1, 0>>)
      [] id = 5 -> TScale(BaseMatrix(1, "c64", "cuda"), <<t + 1, 0>>)
      [] id = 6 -> TScale(BaseMatrix(2, IF t = 0 THEN "c64" ELSE "c128", "cpu"),
                          <<t + 1, 0>>)
      [] id = 11 -> ScalarTensor(<<t + 1, t>>, "c64", "cpu")
      [] id = 12 -> ScalarTensor(<<2, 1 - t>>, "c64", "cpu")
      [] id = 13 -> ScalarTensor(<<t - 2, 0>>, "f32", "cpu")
      [] id = 14 -> ScalarTensor(<<t, 0>>, "f64", "cpu")
      [] id = 15 -> ScalarTensor(<<t, 1>>, "c64", "cuda")
      [] id = 16 -> PyNumber(<<t, 0>>)

\* isinstance(x, Tensor)
IsTensor(x) == x.dtype \in DTypes

\* the value a function object returns at t
RECURSIVE FnCall(_, _)
FnCall(fn, t) ==
    CASE fn.k = "user" -> UserCall(fn.id, t)
      [] fn.k = "adjoint" -> TAdjoint(FnCall(fn.f, t))
      [] fn.k = "conj" -> TConj(FnCall(fn.f, t))
      [] fn.k = "neg" -> TNeg(FnCall(fn.f, t))
      [] fn.k = "mul" -> TScale(FnCall(fn.f, t), fn.c)
      [] fn.k = "addT" -> TAdd(FnCall(fn.f, t), fn.other)
      [] fn.k = "addF" -> TAdd(FnCall(fn.f, t), FnCall(fn.g, t))

\* the calls of caller-supplied functions that evaluating fn at t makes, in order
RECURSIVE FnTrace(_, _)
FnTrace(fn, t) ==
    CASE fn.k = "user" -> <<[id |-> fn.id, t |-> t]>>
      [] fn.k = "addF" -> FnTrace(fn.f, t) \o FnTrace(fn.g, t)
      [] OTHER -> FnTrace(fn.f, t)

\* --------------------------------------------------------- ConstantTimeTensor
ConstantTimeTensor(tensor) == [variant |-> "Constant", tensor |-> tensor]

ConstantShape(x) == x.tensor.shape
ConstantCall(x, t) == x.tensor
ConstantView(x, shape) == ConstantTimeTensor(TView(x.tensor, shape))
ConstantAdjoint(x) == ConstantTimeTensor(TAdjoint(x.tensor))
ConstantNeg(x) == ConstantTimeTensor(TNeg(x.tensor))
ConstantMul(x, c) == ConstantTimeTensor(TScale(x.tensor, c))

NotImplemented == [variant |-> "NotImplemented"]
TypeError == [variant |-> "TypeError", msg |-> "unsupported operand type(s) for +"]
RecursionError == [variant |-> "RecursionError", msg |-> "maximum recursion depth exceeded"]

\* the python type of an object: a TimeTensor variant, or Tensor
Variant(x) == IF "variant" \in DOMAIN x THEN x.variant ELSE "Tensor"

IsTimeTensor(x) == Variant(x) \in {"Constant", "Callable", "PWC", "Modulated"}

ConstantAdd(x, other) ==
    IF Variant(other) = "Tensor" THEN ConstantTimeTensor(TAdd(x.tensor, other))
    ELSE IF Variant(other) = "Constant"
         THEN ConstantTimeTensor(TAdd(x.tensor, other.tensor))
         ELSE NotImplemented

\* --------------------------------------------------------- CallableTimeTensor
CallableTimeTensor(f, f0) == [variant |-> "Callable", f |-> f, f0 |-> f0]

CallableShape(x) == x.f0.shape

\* the body of __call__ (what the cache wraps)
CallableCall(x, t) == TView(FnCall(x.f, t), CallableShape(x))

CallableView(x, shape) == CallableTimeTensor(x.f, TView(x.f0, shape))

CallableAdjoint(x) ==
    CallableTimeTensor([k |-> "adjoint", f |-> x.f], TAdjoint(x.f0))

CallableNeg(x) == CallableTimeTensor([k |-> "neg", f |-> x.f], TNeg(x.f0))

CallableMul(x, c) ==
    CallableTimeTensor([k |-> "mul", f |-> x.f, c |-> c], TScale(x.f0, c))

CallableAddTensor(x, other) ==
    CallableTimeTensor([k |-> "addT", f |-> x.f, other |-> other], TAdd(x.f0, other))

\* an addition that takes every operator as its second operand
CallableAddAny(x, other) ==
    IF Variant(other) = "Tensor" THEN CallableAddTensor(x, other)
    ELSE CallableAddTensor(x, x.f0)

CallableAdd(x, other) ==
    IF Variant(other) = "Tensor" THEN CallableAddTensor(x, other)
    ELSE IF Variant(other) = "Constant" THEN CallableAddTensor(x, other.tensor)
    ELSE IF Variant(other) = "Callable"
         THEN CallableTimeTensor([k |-> "addF", f |-> x.f, g |-> other.f],
                                 TAdd(x.f0, other.f0))
         ELSE NotImplemented

\* ----------------------------------------------------------------- _PWCFactor
PWCFactor(times, values) ==
    [times |-> times, values |-> values, nv |-> values.shape[Len(values.shape)]]

PWCFactorShape(x) == SubSeq(x.values.shape, 1, Len(x.values.shape) - 1)

\* a copy of the factor whose values are not conjugated
PWCFactorCopy(x) == PWCFactor(x.times, x.values)
PWCFactorConj(x) == PWCFactor(x.times, TConj(x.values))

PWCFactorCall(x, t) ==
    IF t < x.times[1] \/ t >= x.times[Len(x.times)]
    THEN TZerosLike(TSelectLast(x.values, 0))
    ELSE TSelectLast(x.values, SearchSortedRight(x.times, t) - 1)

PWCFactorView(x, shape) == PWCFactor(x.times, TView(x.values, shape \o <<x.nv>>))

\* ------------------------------------------------------------- PWCTimeTensor
RECURSIVE ConcatTimes(_)
ConcatTimes(factors) ==
    IF factors = <<>> THEN <<>> ELSE Head(factors).times \o ConcatTimes(Tail(factors))

\* torch.cat([x.times for x in factors]).unique(sorted=True)
MergeTimes(factors) == SetToSortedSeq(SeqRange(ConcatTimes(factors)))

PWCTimeTensor(factors, tensors, static) ==
    [variant |-> "PWC", factors |-> factors, tensors |-> tensors,
     n |-> tensors.shape[Len(tensors.shape)], static |-> static,
     times |-> MergeTimes(factors)]

\* the default of `static`: torch.zeros_like(self.tensors[0])
DefaultStatic(tensors) == TZerosLike(TSelectFirst(tensors, 0))

PWCShape(x) == PWCFactorShape(x.factors[1]) \o <<x.n, x.n>>

\* sum over the factors of factor(t) * tensor, plus the static part
WeightedSum(values, tensors, static) ==
    TAdd(TSumM3(TMul(TView(values, values.shape \o <<1, 1>>), tensors)), static)

\* _call(idx): idx is the 0-based index of the interval in self.times
PWCInnerCall(x, idx) ==
    IF idx < 0 \/ idx >= Len(x.times) - 1
    THEN TExpand(x.static, PWCShape(x))
    ELSE WeightedSum(
             TStackLast([f \in 1..Len(x.factors) |->
                            PWCFactorCall(x.factors[f], x.times[idx + 1])]),
             x.tensors, x.static)

PWCIndex(x, t) == SearchSortedRight(x.times, t) - 1

PWCCall(x, t) == PWCInnerCall(x, PWCIndex(x, t))

PWCView(x, shape) ==
    PWCTimeTensor([f \in 1..Len(x.factors) |->
                      PWCFactorView(x.factors[f], SubSeq(shape, 1, Len(shape) - 2))],
                  x.tensors, x.static)

PWCAdjoint(x) ==
    PWCTimeTensor([f \in 1..Len(x.factors) |-> PWCFactorConj(x.factors[f])],
                  TAdjoint(x.tensors), TAdjoint(x.static))

PWCNeg(x) == PWCTimeTensor(x.factors, TNeg(x.tensors), TNeg(x.static))

PWCMul(x, c) == PWCTimeTensor(x.factors, TScale(x.tensors, c), TScale(x.static, c))

PWCAdd(x, other) ==
    IF Variant(other) = "Tensor"
    THEN PWCTimeTensor(x.factors, x.tensors, TAdd(x.static, other))
    ELSE IF Variant(other) = "Constant"
    THEN PWCTimeTensor(x.factors, x.tensors, TAdd(x.static, other.tensor))
    ELSE IF Variant(other) = "PWC"
    THEN PWCTimeTensor(x.factors \o other.factors, TCat(x.tensors, other.tensors),
                       TAdd(x.static, other.static))
    ELSE NotImplemented

\* ----------------------------------------------------------- _ModulatedFactor
ModulatedFactor(f, f0) == [f |-> f, f0 |-> f0]

ModulatedFactorShape(x) == x.f0.shape

ModulatedFactorConj(x) == ModulatedFactor([k |-> "conj", f |-> x.f], TConj(x.f0))

ModulatedFactorCall(x, t) == TView(FnCall(x.f, t), ModulatedFactorShape(x))

ModulatedFactorView(x, shape) == ModulatedFactor(x.f, TView(x.f0, shape))

\* ------------------------------------------------------- ModulatedTimeTensor
ModulatedTimeTensor(factors, tensors, static) ==
    [variant |-> "Modulated", factors |-> factors, tensors |-> tensors,
     n |-> tensors.shape[Len(tensors.shape)], static |-> static]

ModulatedShape(x) == ModulatedFactorShape(x.factors[1]) \o <<x.n, x.n>>

ModulatedCall(x, t) ==
    WeightedSum(TStackLast([f \in 1..Len(x.factors) |->
                               ModulatedFactorCall(x.factors[f], t)]),
                x.tensors, x.static)

ModulatedView(x, shape) ==
    ModulatedTimeTensor(
        [f \in 1..Len(x.factors) |->
            ModulatedFactorView(x.factors[f], SubSeq(shape, 1, Len(shape) - 2))],
        x.tensors, x.static)

ModulatedAdjoint(x) ==
    ModulatedTimeTensor([f \in 1..Len(x.factors) |-> ModulatedFactorConj(x.factors[f])],
                        TAdjoint(x.tensors), TAdjoint(x.static))

ModulatedNeg(x) == ModulatedTimeTensor(x.factors, TNeg(x.tensors), TNeg(x.static))

ModulatedMul(x, c) ==
    ModulatedTimeTensor(x.factors, TScale(x.tensors, c), TScale(x.static, c))

ModulatedAdd(x, other) ==
    IF Variant(other) = "Tensor"
    THEN ModulatedTimeTensor(x.factors, x.tensors, TAdd(x.static, other))
    ELSE IF Variant(other) = "Constant"
    THEN ModulatedTimeTensor(x.factors, x.tensors, TAdd(x.static, other.tensor))
    ELSE IF Variant(other) = "Modulated"
    THEN ModulatedTimeTensor(x.factors \o other.factors,
                             TCat(x.tensors, other.tensors),
                             TAdd(x.static, other.static))
    ELSE NotImplemented

\* ------------------------------------------------ the TimeTensor interface
Shape(x) ==
    CASE x.variant = "Constant" -> ConstantShape(x)
      [] x.variant = "Callable" -> CallableShape(x)
      [] x.variant = "PWC" -> PWCShape(x)
      [] x.variant = "Modulated" -> ModulatedShape(x)

\* the value of x(t)
Call(x, t) ==
    CASE x.variant = "Constant" -> ConstantCall(x, t)
      [] x.variant = "Callable" -> CallableCall(x, t)
      [] x.variant = "PWC" -> PWCCall(x, t)
      [] x.variant = "Modulated" -> ModulatedCall(x, t)

View(x, shape) ==
    CASE x.variant = "Constant" -> ConstantView(x, shape)
      [] x.variant = "Callable" -> CallableView(x, shape)
      [] x.variant = "PWC" -> PWCView(x, shape)
      [] x.variant = "Modulated" -> ModulatedView(x, shape)

Adjoint(x) ==
    CASE x.variant = "Constant" -> ConstantAdjoint(x)
      [] x.variant = "Callable" -> CallableAdjoint(x)
      [] x.variant = "PWC" -> PWCAdjoint(x)
      [] x.variant = "Modulated" -> ModulatedAdjoint(x)

Neg(x) ==
    CASE x.variant = "Constant" -> ConstantNeg(x)
      [] x.variant = "Callable" -> CallableNeg(x)
      [] x.variant = "PWC" -> PWCNeg(x)
      [] x.variant = "Modulated" -> ModulatedNeg(x)

Mul(x, c) ==
    CASE x.variant = "Constant" -> ConstantMul(x, c)
      [] x.variant = "Callable" -> CallableMul(x, c)
      [] x.variant = "PWC" -> PWCMul(x, c)
      [] x.variant = "Modulated" -> ModulatedMul(x, c)

\* x.__add__(other); a Tensor's own __add__ does not know a TimeTensor
DunderAdd(x, other) ==
    CASE Variant(x) = "Constant" -> ConstantAdd(x, other)
      [] Variant(x) = "Callable" -> CallableAdd(x, other)
      [] Variant(x) = "PWC" -> PWCAdd(x, other)
      [] Variant(x) = "Modulated" -> ModulatedAdd(x, other)
      [] Variant(x) = "Tensor" ->
            IF Variant(other) = "Tensor" THEN TAdd(x, other) ELSE NotImplemented

\* a reflected addition that is not defined
NoReflectedAdd(x, other) == NotImplemented

\* TimeTensor.__radd__: `return self + other`, the whole expression again.
\* When neither __add__ takes the other operand the two __radd__ call each
\* other without end and python raises RecursionError.
DunderRadd(x, other) ==
    IF Variant(DunderAdd(x, other)) # "NotImplemented" THEN DunderAdd(x, other)
    ELSE IF ~IsTimeTensor(other) THEN TypeError
    ELSE IF Variant(DunderAdd(other, x)) # "NotImplemented" THEN DunderAdd(other, x)
    ELSE RecursionError

\* the python expression a + b: a.__add__(b), then b.__radd__(a)
PyAdd(a, b) ==
    IF Variant(DunderAdd(a, b)) # "NotImplemented" THEN DunderAdd(a, b)
    ELSE IF IsTimeTensor(b) /\ Variant(DunderRadd(b, a)) # "NotImplemented"
         THEN DunderRadd(b, a)
         ELSE TypeError

\* ------------------------------------------------------------------ totime
\* utils.tensor_types.get_cdtype: the default complex dtype
get_cdtype(dtype) == IF dtype = "None" THEN "c64" ELSE dtype

\* _utils.to_device: the default device
to_device(device) == IF device = "None" THEN "cpu" ELSE device

\* utils.tensor_types.to_tensor: the array with the dtype and device asked for
to_tensor(a, dtype, device) == [a EXCEPT !.dtype = dtype, !.device = device]

\* _utils.check_time_tensor: a non-empty sequence in strictly ascending order
check_time_tensor(times) ==
    /\ Len(times) > 0
    /\ \A i \in 1..(Len(times) - 1) : times[i] < times[i + 1]

Raise(type, msg) == [variant |-> type, msg |-> msg]

IsError(x) == Variant(x) \in {"TypeError", "ValueError", "RuntimeError", "RecursionError"}

\* What a factory gives: `result` an operator or the exception raised, `trace`
\* the calls of the caller's function it made.
Outcome(result, trace) == [result |-> result, trace |-> trace]

factory_constant(x, dtype, device) ==
    Outcome(ConstantTimeTensor(to_tensor(x.tensor, dtype, device)), <<>>)

\* the declared dtype alone
DeclaredDType(dtype) == {dtype}

\* the declared dtype and the real dtype of its precision
DeclaredOrRealDType(dtype) == {dtype, dtype_complex_to_real(dtype)}

\* the dtypes _factory_callable accepts for f(0.0)
CallableDTypes(dtype) == {dtype}

\* the dtypes _factory_modulated accepts for f(0.0)
ModulatedDTypes(dtype) == {dtype, dtype_complex_to_real(dtype)}

factory_callable(x, dtype, device) ==
    LET f0 == UserCall(x.id, 0)
    IN  Outcome(
            IF ~IsTensor(f0) THEN Raise("TypeError", "not a tensor")
            ELSE IF f0.dtype \notin CallableDTypes(dtype) THEN Raise("TypeError", "dtype")
            ELSE IF f0.device # device THEN Raise("TypeError", "device")
            ELSE CallableTimeTensor(UserFn(x.id), f0),
            <<[id |-> x.id, t |-> 0]>>)

IsSquareMatrix(tensor) == Len(tensor.shape) = 2 /\ tensor.shape[1] = tensor.shape[2]

factory_pwc(x, dtype, device) ==
    Outcome(
        IF ~check_time_tensor(x.times) THEN Raise("ValueError", "times")
        ELSE IF x.values.shape[1] # Len(x.times) - 1 THEN Raise("TypeError", "values")
        ELSE IF ~IsSquareMatrix(x.tensor) THEN Raise("TypeError", "tensor")
        ELSE PWCTimeTensor(<<PWCFactor(x.times, to_tensor(x.values, dtype, device))>>,
                           TUnsqueeze0(to_tensor(x.tensor, dtype, device)),
                           DefaultStatic(TUnsqueeze0(to_tensor(x.tensor, dtype, device)))),
        <<>>)

factory_modulated(x, dtype, device) ==
    IF ~x.callable THEN Outcome(Raise("TypeError", "not a function"), <<>>)
    ELSE LET f0 == UserCall(x.id, 0)
         IN  Outcome(
                 IF ~IsTensor(f0) THEN Raise("TypeError", "not a tensor")
                 ELSE IF f0.device # device THEN Raise("TypeError", "device")
                 ELSE IF f0.dtype \notin ModulatedDTypes(dtype)
                      THEN Raise("TypeError", "dtype")
                 ELSE IF ~IsSquareMatrix(x.tensor) THEN Raise("TypeError", "tensor")
                 ELSE ModulatedTimeTensor(
                          <<ModulatedFactor(UserFn(x.id), f0)>>,
                          TUnsqueeze0(to_tensor(x.tensor, dtype, device)),
                          DefaultStatic(TUnsqueeze0(to_tensor(x.tensor, dtype, device)))),
                 <<[id |-> x.id, t |-> 0]>>)

totime(x, dtype, device) ==
    CASE x.kind = "tuple3" -> factory_pwc(x, get_cdtype(dtype), to_device(device))
      [] x.kind = "tuple2" -> factory_modulated(x, get_cdtype(dtype), to_device(device))
      [] x.kind = "array" -> factory_constant(x, get_cdtype(dtype), to_device(device))
      [] x.kind = "function" -> factory_callable(x, get_cdtype(dtype), to_device(device))
      [] OTHER -> Outcome(Raise("TypeError", "x"), <<>>)

\* ------------------------------------------------- whether x(t) succeeds
\* values[..., idx] needs idx < nv
PWCFactorCallOK(x, t) ==
    \/ t < x.times[1]
    \/ t >= x.times[Len(x.times)]
    \/ SearchSortedRight(x.times, t) - 1 < x.values.shape[Len(x.values.shape)]

\* torch.stack needs tensors of one shape; the sum with `static` needs shapes
\* that broadcast
WeightedSumOK(shapes, n, static) ==
    /\ \A f \in 1..Len(shapes) : shapes[f] = shapes[1]
    /\ Broadcastable(shapes[1] \o <<n, n>>, static.shape)

PWCCallOK(x, t) ==
    IF PWCIndex(x, t) < 0 \/ PWCIndex(x, t) >= Len(x.times) - 1
    THEN ExpandOK(x.static, PWCShape(x))
    ELSE /\ \A f \in 1..Len(x.factors) :
                PWCFactorCallOK(x.factors[f], x.times[PWCIndex(x, t) + 1])
         /\ WeightedSumOK([f \in 1..Len(x.factors) |-> PWCFactorShape(x.factors[f])],
                          x.n, x.static)

ModulatedCallOK(x, t) ==
    /\ \A f \in 1..Len(x.factors) :
          Prod(FnCall(x.factors[f].f, t).shape) = Prod(ModulatedFactorShape(x.factors[f]))
    /\ WeightedSumOK([f \in 1..Len(x.factors) |-> ModulatedFactorShape(x.factors[f])],
                     x.n, x.static)

CallableCallOK(x, t) == Prod(FnCall(x.f, t).shape) = Prod(CallableShape(x))

CallOK(x, t) ==
    CASE x.variant = "Constant" -> TRUE
      [] x.variant = "Callable" -> CallableCallOK(x, t)
      [] x.variant = "PWC" -> PWCCallOK(x, t)
      [] x.variant = "Modulated" -> ModulatedCallOK(x, t)

\* ------------------------------------------------------------ what callers pass
Array(tensor) == [kind |-> "array", tensor |-> tensor]
Function(id) == [kind |-> "function", id |-> id]
Tuple2(callable, id, tensor) ==
    [kind |-> "tuple2", callable |-> callable, id |-> id, tensor |-> tensor]
Tuple3(times, values, tensor) ==
    [kind |-> "tuple3", times |-> times, values |-> values, tensor |-> tensor]

InputMatrix(k) == BaseMatrix(k, "c64", "cpu")

Values(cs) == Tensor(<<Len(cs)>>, cs, "c64", "cpu")

\* piecewise-constant inputs: overlapping ranges with a shared breakpoint
\* (1 and 2), disjoint ranges with a gap between them (1 and 3)
PWCInputs ==
    { Tuple3(<<0, 2>>, Values(<< <<2, 1>> >>), InputMatrix(1)),
      Tuple3(<<1, 2, 4>>, Values(<< <<1, 0>>, <<0, 3>> >>), InputMatrix(2)),
      Tuple3(<<3, 5>>, Values(<< <<-1, 2>> >>), InputMatrix(3)) }

\* inputs every factory accepts
GoodInputs ==
    PWCInputs \cup
    { Array(InputMatrix(1)), Function(1),
      Tuple2(TRUE, 11, InputMatrix(2)), Tuple2(TRUE, 13, InputMatrix(3)) }

\* inputs a factory refuses, or accepts only under some declared dtype or device
OtherInputs ==
    { Function(id) : id \in {3, 4, 5, 6} } \cup
    { Tuple2(TRUE, id, InputMatrix(1)) : id \in {14, 15, 16} } \cup
    { Tuple2(FALSE, 11, InputMatrix(1)),
      Tuple2(TRUE, 11, Values(<< <<1, 0>> >>)),
      Tuple3(<<2, 1>>, Values(<< <<1, 0>> >>), InputMatrix(1)),
      Tuple3(<<0, 1>>, Values(<< <<1, 0>>, <<2, 0>> >>), InputMatrix(1)),
      Tuple3(<<0, 1>>, Values(<< <<1, 0>> >>), Values(<< <<1, 0>> >>)),
      [kind |-> "string"] }

\* the inputs of the evaluation specification: one of each variant
CallInputs ==
    { Array(InputMatrix(1)), Function(1),
      Tuple2(TRUE, 11, InputMatrix(2)),
      Tuple3(<<0, 2>>, Values(<< <<2, 1>> >>), InputMatrix(1)) }

\* the dtype and device callers declare
DeclaredDTypes == {"None", "c128"}
DeclaredDevices == {"None", "cuda"}

\* the numbers operators are scaled by
Scalars == { <<1, -2>> }

\* the plain tensors added to operators
PlainTensors == { InputMatrix(4) }

\* the shapes operators are viewed with
ViewShapes == { <<-1, N, N>> }

\* ------------------------------------------------------------------- state
VARIABLES
    ops,      \* the TimeTensor objects alive, in order of creation
    hist,     \* hist[i]: how ops[i] was made
    cache,    \* cache[i]: what the cache of ops[i] holds
    last,     \* the last operation and what it returned
    flog,     \* the calls of caller-supplied functions the last operation made
    nobj,     \* the number of tensor objects evaluations have created
    evals,    \* the last two evaluations x(t), the latest last
    pc,       \* where the solve call in progress is; "returned" once it is over,
              \* "idle" between calls
    args,     \* the arguments of the latest solve call
    loc,      \* the local variables of the latest solve call
    integ,    \* the integrator object of the latest solve call
    ret,      \* what the latest solve call returned or raised
    done      \* the solve call before the latest, as its caller has kept it

\* the operators and their evaluation
tvars == <<ops, hist, cache, last, flog, nobj, evals>>

\* the solve calls
svars == <<pc, args, loc, integ, ret, done>>

vars == <<ops, hist, cache, last, flog, nobj, evals, pc, args, loc, integ, ret, done>>

NoEntry == [full |-> FALSE]
NoCall == [act |-> "none"]
NoArgs == [family |-> "none"]
NoLocals == [family |-> "none"]
NoIntegrator == [state |-> "none"]
NoReturn == [variant |-> "none"]
NoRun == [kept |-> FALSE]

Init ==
    /\ ops = <<>>
    /\ hist = <<>>
    /\ cache = <<>>
    /\ last = NoCall
    /\ flog = <<>>
    /\ nobj = 0
    /\ evals = <<>>
    /\ pc = "idle"
    /\ args = NoArgs
    /\ loc = NoLocals
    /\ integ = NoIntegrator
    /\ ret = NoReturn
    /\ done = NoRun

\* the operation writes its result over its first operand
Overwrite(x, how) ==
    /\ ops' = IF how.a > 0 THEN [ops EXCEPT ![how.a] = x] ELSE Append(ops, x)
    /\ hist' = IF how.a > 0 THEN hist ELSE Append(hist, how)
    /\ cache' = IF how.a > 0 THEN cache ELSE Append(cache, NoEntry)

\* a new object: the operator, how it was made, and its empty cache
New(x, how) ==
    /\ ops' = Append(ops, x)
    /\ hist' = Append(hist, how)
    /\ cache' = Append(cache, NoEntry)

How(op, a, b, x) == [op |-> op, a |-> a, b |-> b, x |-> x]

\* the operation `how` returned `result`: an operator, or the exception raised
Return(how, result, trace) ==
    /\ flog' = trace
    /\ IF IsTimeTensor(result)
       THEN /\ New(result, how)
            /\ last' = [act |-> how.op, how |-> how, ok |-> TRUE, new |-> Len(ops) + 1]
       ELSE /\ last' = [act |-> how.op, how |-> how, ok |-> FALSE, error |-> result]
            /\ UNCHANGED <<ops, hist, cache>>
    /\ UNCHANGED <<nobj, evals>>
    /\ UNCHANGED svars

\* totime(x, dtype=dtype, device=device)
Totime(inputs, dtypes, devices, lim) ==
    \E x \in inputs, dtype \in dtypes, device \in devices :
        /\ Len(ops) < lim
        /\ Return(How("totime", 0, 0, [x |-> x, dtype |-> dtype, device |-> device]),
                  totime(x, dtype, device).result, totime(x, dtype, device).trace)

\* ops[i].view(*shape)
DoView(lim) ==
    \E i \in 1..Len(ops), shape \in ViewShapes :
        /\ Len(ops) < lim
        /\ Prod(InferShape(shape, Prod(Shape(ops[i])))) = Prod(Shape(ops[i]))
        /\ Return(How("view", i, 0, shape), View(ops[i], shape), <<>>)

\* ops[i].adjoint()
DoAdjoint(lim) ==
    \E i \in 1..Len(ops) :
        /\ Len(ops) < lim
        /\ Return(How("adjoint", i, 0, 0), Adjoint(ops[i]), <<>>)

\* -ops[i]
DoNeg(lim) ==
    \E i \in 1..Len(ops) :
        /\ Len(ops) < lim
        /\ Return(How("neg", i, 0, 0), Neg(ops[i]), <<>>)

\* ops[i] * c and c * ops[i]
DoMul(lim) ==
    \E i \in 1..Len(ops), c \in Scalars :
        /\ Len(ops) < lim
        /\ Return(How("mul", i, 0, c), Mul(ops[i], c), <<>>)

\* ops[i] + ops[j]
DoAdd(lim) ==
    \E i \in 1..Len(ops), j \in 1..Len(ops) :
        /\ Len(ops) < lim
        /\ Return(How("add", i, j, 0), PyAdd(ops[i], ops[j]), <<>>)

\* ops[i] + tensor
DoAddTensor(lim) ==
    \E i \in 1..Len(ops), tensor \in PlainTensors :
        /\ Len(ops) < lim
        /\ Return(How("addT", i, 0, tensor), PyAdd(ops[i], tensor), <<>>)

\* tensor + ops[i]
DoRaddTensor(lim) ==
    \E i \in 1..Len(ops), tensor \in PlainTensors :
        /\ Len(ops) < lim
        /\ Return(How("raddT", i, 0, tensor), PyAdd(tensor, ops[i]), <<>>)

Algebra(lim) ==
    \/ DoView(lim)
    \/ DoAdjoint(lim)
    \/ DoNeg(lim)
    \/ DoMul(lim)
    \/ DoAdd(lim)
    \/ DoAddTensor(lim)
    \/ DoRaddTensor(lim)

Next ==
    \/ Totime(GoodInputs, {"None"}, {"None"}, MaxOps)
    \/ Algebra(MaxOps)

\* the operators and their algebra
Spec == Init /\ [][Next]_vars

\* operators declared with different dtypes, and their sums
NextAdd ==
    \/ Totime(CallInputs, DeclaredDTypes, {"None"}, MaxAddOps)
    \/ DoAdd(MaxAddOps + 1)

SpecAdd == Init /\ [][NextAdd]_vars

\* TimeTensor.__rmul__: c * x
Rmul(x, c) == Mul(x, c)

\* TimeTensor.__sub__: x - other is x + (-other)
Sub(x, other) == PyAdd(x, Neg(other))

\* c * ops[i]
DoRmul(lim) ==
    \E i \in 1..Len(ops), c \in Scalars :
        /\ Len(ops) < lim
        /\ Return(How("rmul", i, 0, c), Rmul(ops[i], c), <<>>)

\* ops[i] - ops[j]
DoSub(lim) ==
    \E i \in 1..Len(ops), j \in 1..Len(ops) :
        /\ Len(ops) < lim
        /\ Return(How("sub", i, j, 0), Sub(ops[i], ops[j]), <<>>)

\* the inputs of the arithmetic specification: one of each variant, and a
\* second piecewise-constant one with other breakpoints
ArithInputs ==
    CallInputs \cup { Tuple3(<<1, 2, 4>>, Values(<< <<1, 0>>, <<0, 3>> >>), InputMatrix(2)) }

\* scaling on either side, negation and subtraction, of operators as the
\* factories give them and of their views
NextArith ==
    \/ Totime(ArithInputs, {"None"}, {"None"}, MaxAddOps)
    \/ DoView(MaxAddOps + 1)
    \/ DoNeg(MaxAddOps + 1)
    \/ DoMul(MaxAddOps + 1)
    \/ DoRmul(MaxAddOps + 1)
    \/ DoSub(MaxAddOps + 1)

SpecArith == Init /\ [][NextArith]_vars

\* ------------------------------------------------------------- evaluation
\* the variant that looks its value up by the index of an interval
IndexedVariants == {"PWC"}

\* the __call__ methods (for PWC, _call) that the @cache decorator wraps
CachedVariants == {"Callable", "PWC"}

\* _utils.cache: the method's last result is kept with the argument it was
\* computed for; each instance has its own
CacheHit(i, key) == cache[i].full /\ cache[i].key = key

CacheStore(i, key, obj, val) ==
    [cache EXCEPT ![i] = [full |-> TRUE, key |-> key, obj |-> obj, val |-> val]]

\* a tensor object an evaluation of ops[i] created
NewObject(i) == [by |-> i, id |-> nobj + 1]

\* the tensor object an attribute of ops[i] holds
Attribute(i) == [by |-> i, id |-> 0]

Evaluated(i, t, obj, val) ==
    /\ last' = [act |-> "call", i |-> i, t |-> t, ok |-> TRUE, obj |-> obj, val |-> val]
    /\ evals' = IF Len(evals) = 2
                THEN <<evals[2], [i |-> i, t |-> t, obj |-> obj, val |-> val]>>
                ELSE Append(evals, [i |-> i, t |-> t, obj |-> obj, val |-> val])
    /\ UNCHANGED <<ops, hist>>
    /\ UNCHANGED svars

\* the evaluation raised (a shape error inside torch)
EvaluationFailed(i, t) ==
    /\ last' = [act |-> "call", i |-> i, t |-> t, ok |-> FALSE,
                error |-> Raise("RuntimeError", "shape")]
    /\ UNCHANGED <<ops, hist, cache, nobj, evals>>
    /\ UNCHANGED svars

\* a method under @cache, called on ops[i] with the argument `key`: `val` is what
\* its body returns and `trace` the calls of the caller's functions its body makes
CachedMethod(i, t, key, val, trace) ==
    IF CacheHit(i, key)
    THEN /\ Evaluated(i, t, cache[i].obj, cache[i].val)
         /\ flog' = <<>>
         /\ UNCHANGED <<cache, nobj>>
    ELSE /\ nobj < MaxObj
         /\ Evaluated(i, t, NewObject(i), val)
         /\ cache' = CacheStore(i, key, NewObject(i), val)
         /\ nobj' = nobj + 1
         /\ flog' = trace

\* a method without @cache
PlainMethod(i, t, val, trace) ==
    /\ nobj < MaxObj
    /\ Evaluated(i, t, NewObject(i), val)
    /\ nobj' = nobj + 1
    /\ flog' = trace
    /\ UNCHANGED cache

Method(i, t, key, val, trace) ==
    IF ops[i].variant \in CachedVariants
    THEN CachedMethod(i, t, key, val, trace)
    ELSE PlainMethod(i, t, val, trace)

\* ConstantTimeTensor.__call__: self.tensor itself
CallConstant ==
    \E i \in 1..Len(ops), t \in CallTimes :
        /\ ops[i].variant = "Constant"
        /\ Evaluated(i, t, Attribute(i), ConstantCall(ops[i], t))
        /\ flog' = <<>>
        /\ UNCHANGED <<cache, nobj>>

\* CallableTimeTensor.__call__
CallCallable ==
    \E i \in 1..Len(ops), t \in CallTimes :
        /\ ops[i].variant = "Callable"
        /\ IF CallableCallOK(ops[i], t)
           THEN Method(i, t, t, CallableCall(ops[i], t), FnTrace(ops[i].f, t))
           ELSE EvaluationFailed(i, t) /\ flog' = FnTrace(ops[i].f, t)

\* PWCTimeTensor.__call__, which calls _call with the index of the interval
CallPWC ==
    \E i \in 1..Len(ops), t \in CallTimes :
        /\ ops[i].variant = "PWC"
        /\ IF PWCCallOK(ops[i], t)
           THEN Method(i, t, PWCIndex(ops[i], t), PWCCall(ops[i], t), <<>>)
           ELSE EvaluationFailed(i, t) /\ flog' = <<>>

RECURSIVE FactorsTrace(_, _)
FactorsTrace(factors, t) ==
    IF factors = <<>> THEN <<>>
    ELSE FnTrace(Head(factors).f, t) \o FactorsTrace(Tail(factors), t)

\* ModulatedTimeTensor.__call__
CallModulated ==
    \E i \in 1..Len(ops), t \in CallTimes :
        /\ ops[i].variant = "Modulated"
        /\ IF ModulatedCallOK(ops[i], t)
           THEN Method(i, t, t, ModulatedCall(ops[i], t), FactorsTrace(ops[i].factors, t))
           ELSE EvaluationFailed(i, t) /\ flog' = FactorsTrace(ops[i].factors, t)

Evaluate ==
    \/ CallConstant
    \/ CallCallable
    \/ CallPWC
    \/ CallModulated

NextCall ==
    \/ Totime(CallInputs, {"None"}, {"None"}, MaxCallOps)
    \/ DoView(MaxCallOps)
    \/ DoNeg(MaxCallOps)
    \/ DoAdd(MaxCallOps)
    \/ Evaluate

\* the operators, instances derived from them, and their evaluation
SpecCall == Init /\ [][NextCall]_vars

NextFrame ==
    \/ Totime(CallInputs, {"None"}, {"None"}, MaxTotimeOps)
    \/ DoView(MaxCallOps)
    \/ DoAdjoint(MaxCallOps)
    \/ DoNeg(MaxCallOps)
    \/ DoMul(MaxCallOps)
    \/ DoAdd(MaxCallOps)
    \/ CallCallable
    \/ CallPWC

\* an operator of each variant, the operations between operators, and the
\* evaluation of the variants that keep what they evaluate to
SpecFrame == Init /\ [][NextFrame]_vars

\* a tensor of coefficients of the given shape
ShapedValues(shape) ==
    Tensor(shape, [e \in 1..Prod(shape) |-> <<e, 1 - e>>], "c64", "cpu")

\* piecewise-constant inputs whose values have one axis, or a second axis
\* shorter than, as long as, or longer than the number of intervals
ShapedPWCInputs ==
    { Tuple3(<<0, 1, 2>>, ShapedValues(shape), InputMatrix(1)) :
          shape \in { <<2>>, <<2, 1>>, <<2, 2>>, <<2, 3>>, <<1, 2>> } } \cup
    { Tuple3(<<0, 2>>, ShapedValues(shape), InputMatrix(2)) :
          shape \in { <<1>>, <<1, 2>> } }

NextPWC ==
    \/ Totime(ShapedPWCInputs, {"None"}, {"None"}, MaxAddOps)
    \/ CallPWC

\* piecewise-constant operators from values of several shapes, and their
\* evaluation
SpecPWC == Init /\ [][NextPWC]_vars

NextTotime ==
    \/ Totime(GoodInputs \cup OtherInputs, DeclaredDTypes, DeclaredDevices, MaxTotimeOps)
    \/ Evaluate

\* construction from every kind of input and declaration, and evaluation
SpecTotime == Init /\ [][NextTotime]_vars

\* ===================================================================== solve
\* ------------------------------------------------------- what callers pass
\* a solver object: its class and the classes it is an instance of
SolverOf(type) == [type |-> type, bases |-> {type, "Solver"}]

\* solver=None
NoSolver == [type |-> "NoneType", bases |-> {}]

\* an instance of a class the caller derived from Euler
EulerSubclass == [type |-> "MyEuler", bases |-> {"MyEuler", "Euler", "Solver"}]

SolverClasses == {"Propagator", "Euler", "BackwardEuler", "Dopri5", "Rouchon1"}

\* an object that is no Solver
NotASolver == [type |-> "str", bases |-> {"str"}]

SolverInputs ==
    {NoSolver, EulerSubclass, NotASolver} \cup { SolverOf(c) : c \in SolverClasses }

GradientInputs == {"None", "Autograd", "Adjoint"}

\* the shape of an array with a leading batch axis of size b, without one if b = 0
Batched(b, shape) == IF b = 0 THEN shape ELSE <<b>> \o shape

BatchInputs == 0..MaxB

\* a Hamiltonian: an array, a TimeTensor, or something that is neither
Hamiltonian(kind, b) == [kind |-> kind, shape |-> Batched(b, <<N, N>>)]

\* exp_ops: None, a list of nE operators, or a tuple of them
ExpOps(kind, nE) == [kind |-> kind, len |-> nE]

\* the options dictionary
OptionsDict(save_states, cartesian_batching) ==
    [save_states |-> save_states, cartesian_batching |-> cartesian_batching]

OptionsInputs == { OptionsDict(s, c) : s \in BOOLEAN, c \in BOOLEAN }

\* tsave: two save times, and a sequence that is not ascending
GoodTsave == <<1, 2>>
BadTsave == <<2, 1>>

SeArgs(H, psi0, tsave, exp_ops, solver, gradient, options) ==
    [family |-> "se", H |-> H, psi0 |-> psi0, tsave |-> tsave, exp_ops |-> exp_ops,
     solver |-> solver, gradient |-> gradient, options |-> options]

\* sesolve calls whose arguments pass every check but that on the batch sizes
SeBatchCalls ==
    { SeArgs(Hamiltonian("array", bH), Batched(by, <<N, 1>>), GoodTsave,
             exp_ops, solver, "None", options) :
        bH \in BatchInputs, by \in BatchInputs,
        exp_ops \in {ExpOps("None", 0), ExpOps("list", 2)},
        solver \in {NoSolver, SolverOf("Propagator")},
        options \in OptionsInputs }

\* sesolve calls with and without arguments that a check refuses
SeValidationCalls ==
    { SeArgs(H, Batched(by, <<N, 1>>), tsave, exp_ops, solver, gradient,
             OptionsDict(TRUE, cartesian)) :
        H \in {Hamiltonian("array", 2), Hamiltonian("TimeTensor", 0),
               Hamiltonian("str", 0)},
        by \in {0, MaxB},
        tsave \in {GoodTsave, BadTsave},
        exp_ops \in {ExpOps("None", 0), ExpOps("list", 1), ExpOps("tuple", 1)},
        solver \in SolverInputs,
        gradient \in GradientInputs,
        cartesian \in BOOLEAN }

SeCalls == SeBatchCalls \cup SeValidationCalls

\* ------------------------------------------------------ what sesolve calls
\* Solver.supports_gradient: the gradient is one of the class's SUPPORTED_GRADIENT
SUPPORTED_GRADIENT(solver) ==
    IF "Propagator" \in solver.bases THEN {"Autograd"} ELSE {"Autograd", "Adjoint"}

supports_gradient(solver, gradient) == gradient \in SUPPORTED_GRADIENT(solver)

\* SharedOptions.__init__
SharedOptions(options) ==
    [save_states |-> options.save_states,
     cdtype |-> get_cdtype("None"),
     rdtype |-> dtype_complex_to_real(get_cdtype("None")),
     device |-> to_device("None"),
     cartesian_batching |-> options.cartesian_batching]

\* Options.__init__: the options object, or the exception raised; with a gradient
\* given, solver.supports_gradient is looked up on whatever `solver` is
Options(solver, gradient, options) ==
    IF gradient # "None" /\ "Solver" \notin solver.bases
    THEN [variant |-> "AttributeError", msg |-> "supports_gradient", supported |-> {}]
    ELSE IF gradient # "None" /\ ~supports_gradient(solver, gradient)
    THEN [variant |-> "ValueError", msg |-> "gradient",
          supported |-> SUPPORTED_GRADIENT(solver)]
    ELSE [variant |-> "Options", solver |-> solver, gradient |-> gradient,
          options |-> SharedOptions(options)]

\* isinstance(solver, tuple(solvers.keys()))
IsInstance(solver, classes) == solver.bases \cap classes # {}

\* the dictionary `solvers` of sesolve
SeSolvers ==
    [c \in {"Propagator", "Euler", "BackwardEuler", "Dopri5"} |->
        CASE c = "Propagator" -> "SEPropagator"
          [] c = "Euler" -> "SEEuler"
          [] c = "BackwardEuler" -> "SEBackwardEuler"
          [] c = "Dopri5" -> "SEDormandPrince5"]

\* any object at all
AnyObject(H) == TRUE

\* isinstance(H, (*get_args(ArrayLike), TimeTensor))
IsArrayLikeOrTimeTensor(H) == H.kind \in {"array", "TimeTensor"}

\* solvers.utils.common_batch_size: the one size that is not 1, 1 if there is
\* none, nothing (0) if there are several
common_batch_size(dims) ==
    LET bs == SeqRange(dims) \ {1}
    IN  IF Cardinality(bs) > 1 THEN 0
        ELSE IF Cardinality(bs) = 1 THEN CHOOSE b \in bs : TRUE
        ELSE 1

\* Tensor.repeat(*sizes) on a tensor with as many dimensions as sizes
Repeat(shape, sizes) == [d \in 1..Len(shape) |-> shape[d] * sizes[d]]

\* the value of a tensor an integrator computes, as the expression that gives
\* it: the function applied, the time or the factor it is given, the Wiener
\* increment it is given, and the tensors it is applied to
Term(f, t, dw, of) == [f |-> f, t |-> t, dw |-> dw, of |-> of]

\* a tensor the integrator is constructed with
Given(name) == Term(name, 0, 0, <<>>)

\* a + b and c * a
Sum(a, b) == Term("add", 0, 0, <<a, b>>)
Scaled(c, a) == Term("mul", c, 0, <<a>>)

\* where a run stands: the statement of `forward` that comes next, the time
\* reached, the state, the Wiener increment last sampled, the measurement
\* accumulator, and the states saved
FirstStep ==
    [fpc |-> "sample", t |-> 0, rho |-> Given("y0"), dw |-> 0,
     meas |-> Given("zeros"), saved |-> <<>>]

\* the integrator object SOLVER_CLASS(H, y0, tsave, tmeas, E, options, ...)
Integrator(class, H, y0, tsave, tmeas, nE, options, more) ==
    [state |-> "constructed", class |-> class, H |-> H, y0 |-> y0, tsave |-> tsave,
     tmeas |-> tmeas, nE |-> nE, options |-> options, more |-> more,
     run |-> FirstStep]

\* an optional tensor of a Result, by its shape
NoTensor == [isnone |-> TRUE, shape |-> <<>>]
Shaped(shape) == [isnone |-> FALSE, shape |-> shape]

\* the leading axes of y0 that the integrator keeps in what it saves
BatchAxes(y0) == SubSeq(y0, 1, Len(y0) - 2)
MatrixAxes(y0) == SubSeq(y0, Len(y0) - 1, Len(y0))

\* Solver.run: the states at every time of tsave, or the last one alone, and the
\* expectation values, with the leading axes of y0
SavedStates(solver) ==
    Shaped(BatchAxes(solver.y0) \o
           (IF solver.options.options.save_states THEN <<Len(solver.tsave)>> ELSE <<>>) \o
           MatrixAxes(solver.y0))

SavedExpects(solver) ==
    IF solver.nE = 0 THEN NoTensor
    ELSE Shaped(BatchAxes(solver.y0) \o <<solver.nE, Len(solver.tsave)>>)

\* torch.squeeze(*dims): the listed dimensions (counted from 0) that have size 1
\* are removed
RECURSIVE Keep(_, _, _)
Keep(shape, dims, d) ==
    IF d > Len(shape) THEN <<>>
    ELSE (IF (d - 1) \in dims /\ shape[d] = 1 THEN <<>> ELSE <<shape[d]>>)
         \o Keep(shape, dims, d + 1)

Squeeze(tensor, dims) ==
    IF tensor.isnone THEN tensor ELSE Shaped(Keep(tensor.shape, dims, 1))

\* Tensor.permute(*dims), dims counted from 0
Permute(tensor, dims) == Shaped([d \in 1..Len(dims) |-> tensor.shape[dims[d] + 1]])

\* ---------------------------------------------------------------- the steps
\* the call goes on at `p` with the locals `l`
Goto(p, l) ==
    /\ pc' = p
    /\ loc' = l
    /\ UNCHANGED <<args, integ, ret>>
    /\ UNCHANGED <<tvars, done>>

\* the call raises
Fail(error) ==
    /\ pc' = "returned"
    /\ ret' = error
    /\ UNCHANGED <<args, loc, integ>>
    /\ UNCHANGED <<tvars, done>>

\* ------------------------------------------------------------------ sesolve
\* sesolve(H, psi0, tsave, ...) is called; a missing solver is Dopri5()
SeCall ==
    /\ pc = "idle"
    /\ \E a \in SeCalls :
          /\ args' = a
          /\ loc' = [family |-> "se",
                     solver |-> IF a.solver = NoSolver THEN SolverOf("Dopri5")
                                ELSE a.solver]
    /\ integ' = NoIntegrator
    /\ ret' = NoReturn
    /\ pc' = "se_options"
    /\ UNCHANGED <<tvars, done>>

SeOptions ==
    /\ pc = "se_options"
    /\ LET options == Options(loc.solver, args.gradient, args.options)
       IN  IF options.variant # "Options" THEN Fail(options)
           ELSE Goto("se_solver_class", loc @@ [options |-> options])

SeSolverClass ==
    /\ pc = "se_solver_class"
    /\ IF ~IsInstance(loc.solver, DOMAIN SeSolvers)
       THEN Fail([variant |-> "ValueError", msg |-> "solver",
                  supported |-> DOMAIN SeSolvers])
       ELSE IF loc.solver.type \notin DOMAIN SeSolvers
       THEN Fail([variant |-> "KeyError", msg |-> loc.solver.type])
       ELSE Goto("se_exp_ops", loc @@ [SOLVER_CLASS |-> SeSolvers[loc.solver.type]])

SeCheckExpOps ==
    /\ pc = "se_exp_ops"
    /\ IF args.exp_ops.kind \notin {"None", "list"}
       THEN Fail(Raise("TypeError", "exp_ops"))
       ELSE Goto("se_H", loc)

\* H is converted and viewed as (bH, n, n)
SeConvertH ==
    /\ pc = "se_H"
    /\ IF ~IsArrayLikeOrTimeTensor(args.H)
       THEN Fail(Raise("TypeError", "H"))
       ELSE LET n == args.H.shape[Len(args.H.shape)]
                H == InferShape(<<-1, n, n>>, Prod(args.H.shape))
            IN  Goto("se_y0", loc @@ [n |-> n, H |-> H, bH |-> H[1]])

\* psi0 is converted and viewed as (by, n, 1)
SeConvertY0 ==
    /\ pc = "se_y0"
    /\ LET y0 == InferShape(<<-1, loc.n, 1>>, Prod(args.psi0))
       IN  Goto("se_batch", loc @@ [y0 |-> y0, by |-> y0[1]])

\* the leading axis alone
LeadingAxis(cartesian_batching) == {0}

\* dim_squeeze of sesolve: the axes that squeeze is called with
SeDimSqueeze(cartesian_batching) == IF cartesian_batching THEN {0, 1} ELSE {0}

\* y0 as it is
SameY0(y0, by, b) == y0

\* y0 of sesolve under zip batching: repeated b times if its batch size is 1
SeZipY0(y0, by, b) == IF by = 1 THEN Repeat(y0, <<b, 1, 1>>) ELSE y0

SeBatch ==
    /\ pc = "se_batch"
    /\ IF loc.options.options.cartesian_batching
       THEN Goto("se_times",
                 [loc EXCEPT !.H = <<loc.bH, 1, loc.n, loc.n>>,
                             !.y0 = Repeat(<<1, loc.by, loc.n, 1>>, <<loc.bH, 1, 1, 1>>)]
                 @@ [dim_squeeze |-> SeDimSqueeze(TRUE)])
       ELSE LET b == common_batch_size(<<loc.bH, loc.by>>)
            IN  IF b = 0
                THEN Fail([variant |-> "ValueError", msg |-> "batch",
                           names |-> <<<<"H", loc.bH>>, <<"psi0", loc.by>>>>])
                ELSE Goto("se_times",
                          [loc EXCEPT !.y0 = SeZipY0(loc.y0, loc.by, b)]
                          @@ [dim_squeeze |-> SeDimSqueeze(FALSE), b |-> b])

\* exp_ops and tsave are converted, tsave is checked, tmeas is empty
SeConvertTimes ==
    /\ pc = "se_times"
    /\ IF ~check_time_tensor(args.tsave)
       THEN Fail(Raise("ValueError", "tsave"))
       ELSE Goto("se_define", loc @@ [nE |-> args.exp_ops.len, tsave |-> args.tsave,
                                       tmeas |-> <<>>])

\* solver = SOLVER_CLASS(H, y0, tsave, tmeas, E, options)
SeDefineSolver ==
    /\ pc = "se_define"
    /\ integ' = Integrator(loc.SOLVER_CLASS, loc.H, loc.y0, loc.tsave, loc.tmeas,
                           loc.nE, loc.options, [family |-> "se"])
    /\ pc' = "se_run"
    /\ UNCHANGED <<args, loc, ret>>
    /\ UNCHANGED <<tvars, done>>

\* result = solver.run()
SeRun ==
    /\ pc = "se_run"
    /\ integ' = [integ EXCEPT !.state = "ran"]
    /\ loc' = loc @@ [result |-> [variant |-> "Result", ysave |-> SavedStates(integ),
                                   Esave |-> SavedExpects(integ)]]
    /\ pc' = "se_return"
    /\ UNCHANGED <<args, ret>>
    /\ UNCHANGED <<tvars, done>>

\* the batch axes of size 1 are removed and the result is returned
SeReturn ==
    /\ pc = "se_return"
    /\ ret' = [loc.result EXCEPT !.ysave = Squeeze(@, loc.dim_squeeze),
                                 !.Esave = Squeeze(@, loc.dim_squeeze)]
    /\ pc' = "returned"
    /\ UNCHANGED <<args, loc, integ>>
    /\ UNCHANGED <<tvars, done>>

sesolve ==
    \/ SeCall
    \/ SeOptions
    \/ SeSolverClass
    \/ SeCheckExpOps
    \/ SeConvertH
    \/ SeConvertY0
    \/ SeBatch
    \/ SeConvertTimes
    \/ SeDefineSolver
    \/ SeRun
    \/ SeReturn

\* ----------------------------------------------------------------- smesolve
\* jump_ops: a list, or a tuple, of nL operators with batch size bL
JumpOps(kind, nL, bL) == [kind |-> kind, len |-> nL, shape |-> Batched(bL, <<N, N>>)]

\* tmeas=None, or the times given
NoTimes == [isnone |-> TRUE, times |-> <<>>]
Times(times) == [isnone |-> FALSE, times |-> times]

\* seed=None, or the seed given
NoSeed == [isnone |-> TRUE, seed |-> 0]
Seed(seed) == [isnone |-> FALSE, seed |-> seed]

\* the seeds torch.Generator.seed() draws from
RandomSeeds == {7, 8}

\* efficiencies, in tenths
EtasInputs ==
    { <<10>>, <<5, 0>>, <<0>>, <<0, 0>>, <<11>>, <<-1, 5>>, <<10, 5, 5>> }

SmeArgs(H, jump_ops, etas, rho0, tsave, exp_ops, tmeas, ntrajs, seed, solver,
        gradient, options) ==
    [family |-> "sme", H |-> H, jump_ops |-> jump_ops, etas |-> etas, rho0 |-> rho0,
     tsave |-> tsave, exp_ops |-> exp_ops, tmeas |-> tmeas, ntrajs |-> ntrajs,
     seed |-> seed, solver |-> solver, gradient |-> gradient, options |-> options]

\* smesolve calls whose arguments pass every check but that on the batch sizes
SmeBatchCalls ==
    { SmeArgs(Hamiltonian("array", bH), JumpOps("list", 2, bL), etas,
              Batched(by, <<N, N>>), GoodTsave, ExpOps("list", 1), NoTimes, ntrajs,
              Seed(0), SolverOf("Euler"), "None", options) :
        bH \in BatchInputs, bL \in BatchInputs, by \in BatchInputs,
        etas \in {<<5, 0>>, <<5, 10>>},
        ntrajs \in {1, 2}, options \in OptionsInputs }

\* smesolve calls with and without arguments that a check refuses
SmeValidationCalls ==
    { SmeArgs(Hamiltonian("array", 0), jump_ops, etas, Batched(0, <<N, N>>), tsave,
              exp_ops, tmeas, 1, seed, solver, gradient, OptionsDict(TRUE, cartesian)) :
        jump_ops \in {JumpOps("list", 1, 0), JumpOps("list", 2, 0),
                      JumpOps("list", 0, 0), JumpOps("tuple", 1, 0)},
        etas \in EtasInputs,
        tsave \in {GoodTsave, BadTsave},
        exp_ops \in {ExpOps("None", 0), ExpOps("tuple", 1)},
        tmeas \in {NoTimes, Times(BadTsave)},
        seed \in {NoSeed, Seed(0)},
        solver \in SolverInputs,
        gradient \in {"None", "Adjoint"},
        cartesian \in BOOLEAN }

SmeCalls ==
    SmeBatchCalls \cup SmeValidationCalls \cup
    { SmeArgs(Hamiltonian("str", 0), JumpOps("list", 1, 0), <<10>>,
              Batched(0, <<N, N>>), GoodTsave, ExpOps("None", 0), Times(<<>>), 1,
              Seed(1), SolverOf("Rouchon1"), "None", OptionsDict(TRUE, TRUE)),
      SmeArgs(Hamiltonian("TimeTensor", 0), JumpOps("list", 1, 0), <<10>>,
              Batched(0, <<N, N>>), GoodTsave, ExpOps("None", 0), Times(<<>>), 1,
              Seed(1), SolverOf("Rouchon1"), "None", OptionsDict(FALSE, FALSE)) }

\* the dictionary `solvers` of smesolve
SmeSolvers ==
    [c \in {"Euler", "Rouchon1"} |->
        IF c = "Euler" THEN "SMEEuler" ELSE "SMERouchon1"]

\* _utils.check_time_tensor(..., allow_empty=True)
check_time_tensor_allow_empty(times) == times = <<>> \/ check_time_tensor(times)

\* SMESolver.run: the measurement records, one per channel of non-zero
\* efficiency and interval of tmeas, with the leading axes of y0 in between
SavedMeasurements(solver) ==
    Shaped(<<Cardinality({k \in 1..Len(solver.more.etas) : solver.more.etas[k] # 0})>> \o
           BatchAxes(solver.y0) \o
           <<IF solver.tmeas = <<>> THEN 0 ELSE Len(solver.tmeas) - 1>>)

\* smesolve(H, jump_ops, etas, rho0, tsave, ...) is called
SmeCallOf(calls) ==
    /\ pc = "idle"
    /\ \E a \in calls :
          /\ args' = a
          /\ loc' = [family |-> "sme", solver |-> a.solver]
    /\ integ' = NoIntegrator
    /\ ret' = NoReturn
    /\ pc' = "sme_solver"
    /\ UNCHANGED <<tvars, done>>

SmeCall == SmeCallOf(SmeCalls)

\* there is no default solver
SmeCheckSolver ==
    /\ pc = "sme_solver"
    /\ IF loc.solver = NoSolver
       THEN Fail(Raise("ValueError", "no default solver"))
       ELSE Goto("sme_options", loc)

SmeOptions ==
    /\ pc = "sme_options"
    /\ LET options == Options(loc.solver, args.gradient, args.options)
       IN  IF options.variant # "Options" THEN Fail(options)
           ELSE Goto("sme_solver_class", loc @@ [options |-> options])

SmeSolverClass ==
    /\ pc = "sme_solver_class"
    /\ IF ~IsInstance(loc.solver, DOMAIN SmeSolvers)
       THEN Fail([variant |-> "ValueError", msg |-> "solver",
                  supported |-> DOMAIN SmeSolvers])
       ELSE IF loc.solver.type \notin DOMAIN SmeSolvers
       THEN Fail([variant |-> "KeyError", msg |-> loc.solver.type])
       ELSE Goto("sme_jump_ops", loc @@ [SOLVER_CLASS |-> SmeSolvers[loc.solver.type]])

SmeCheckJumpOps ==
    /\ pc = "sme_jump_ops"
    /\ IF args.jump_ops.kind # "list" THEN Fail(Raise("TypeError", "jump_ops"))
       ELSE IF args.jump_ops.len = 0 THEN Fail(Raise("ValueError", "jump_ops"))
       ELSE Goto("sme_exp_ops", loc)

SmeCheckExpOps ==
    /\ pc = "sme_exp_ops"
    /\ IF args.exp_ops.kind \notin {"None", "list"}
       THEN Fail(Raise("TypeError", "exp_ops"))
       ELSE Goto("sme_H", loc)

\* H is converted by to_time_operator, which refuses what is neither an array nor
\* a TimeTensor, and viewed as (bH, n, n)
SmeConvertH ==
    /\ pc = "sme_H"
    /\ IF ~IsArrayLikeOrTimeTensor(args.H)
       THEN Fail(Raise("TypeError", "H"))
       ELSE LET n == args.H.shape[Len(args.H.shape)]
                H == InferShape(<<-1, n, n>>, Prod(args.H.shape))
            IN  Goto("sme_L", loc @@ [n |-> n, H |-> H, bH |-> H[1]])

\* jump_ops are converted and stacked by format_L as (nL, bL, n, n)
SmeConvertL ==
    /\ pc = "sme_L"
    /\ LET L == <<args.jump_ops.len>> \o
                InferShape(<<-1, loc.n, loc.n>>, Prod(args.jump_ops.shape))
       IN  Goto("sme_y0", loc @@ [L |-> L, nL |-> L[1], bL |-> L[2]])

\* rho0 is converted and viewed as (by, n, n)
SmeConvertY0 ==
    /\ pc = "sme_y0"
    /\ LET y0 == InferShape(<<-1, loc.n, loc.n>>, Prod(args.rho0))
       IN  Goto("sme_batch", loc @@ [y0 |-> y0, by |-> y0[1]])

\* the four leading axes
LeadingFourAxes(cartesian_batching) == {0, 1, 2, 3}

\* dim_squeeze of smesolve
SmeDimSqueeze(cartesian_batching) == IF cartesian_batching THEN {0, 1, 2} ELSE {0}

\* y0 of smesolve under zip batching: repeated b times if its batch size is 1,
\* then once per trajectory
SmeZipY0(y0, by, b, ntrajs) ==
    Repeat(IF by = 1 THEN Repeat(y0, <<b, 1, 1, 1>>) ELSE y0, <<1, ntrajs, 1, 1>>)

SmeBatch ==
    /\ pc = "sme_batch"
    /\ IF loc.options.options.cartesian_batching
       THEN Goto("sme_times",
                 [loc EXCEPT !.H = <<loc.bH, 1, 1, 1, loc.n, loc.n>>,
                             !.L = <<loc.nL, 1, loc.bL, 1, 1, loc.n, loc.n>>,
                             !.y0 = Repeat(<<1, 1, loc.by, 1, loc.n, loc.n>>,
                                           <<loc.bH, loc.bL, 1, args.ntrajs, 1, 1>>)]
                 @@ [dim_squeeze |-> SmeDimSqueeze(TRUE)])
       ELSE LET b == common_batch_size(<<loc.bH, loc.bL, loc.by>>)
                y0 == <<loc.by, 1, loc.n, loc.n>>
            IN  IF b = 0
                THEN Fail([variant |-> "ValueError", msg |-> "batch",
                           names |-> <<<<"H", loc.bH>>, <<"jump_ops", loc.bL>>,
                                       <<"rho0", loc.by>>>>])
                ELSE Goto("sme_times",
                          [loc EXCEPT !.H = <<loc.bH, 1, loc.n, loc.n>>,
                                      !.L = <<loc.nL, loc.bL, 1, loc.n, loc.n>>,
                                      !.y0 = SmeZipY0(y0, loc.by, b, args.ntrajs)]
                          @@ [dim_squeeze |-> SmeDimSqueeze(FALSE), b |-> b])

\* exp_ops, tsave and tmeas are converted, tsave and tmeas are checked
SmeConvertTimes ==
    /\ pc = "sme_times"
    /\ LET tmeas == IF args.tmeas.isnone THEN args.tsave ELSE args.tmeas.times
       IN  IF ~check_time_tensor(args.tsave) THEN Fail(Raise("ValueError", "tsave"))
           ELSE IF ~check_time_tensor_allow_empty(tmeas)
           THEN Fail(Raise("ValueError", "tmeas"))
           ELSE Goto("sme_etas", loc @@ [nE |-> args.exp_ops.len, tsave |-> args.tsave,
                                          tmeas |-> tmeas])

\* etas is converted, viewed with nL leading elements, and checked
SmeConvertEtas ==
    /\ pc = "sme_etas"
    /\ IF Len(args.etas) # loc.nL THEN Fail(Raise("RuntimeError", "view"))
       ELSE IF loc.nL # args.jump_ops.len
       THEN Fail([variant |-> "ValueError", msg |-> "etas length",
                  names |-> <<<<"jump_ops", args.jump_ops.len>>, <<"etas", loc.nL>>>>])
       ELSE IF \A k \in 1..Len(args.etas) : args.etas[k] = 0
       THEN Fail(Raise("ValueError", "etas all zero"))
       ELSE IF \E k \in 1..Len(args.etas) : args.etas[k] < 0 \/ args.etas[k] > 10
       THEN Fail(Raise("ValueError", "etas range"))
       ELSE Goto("sme_generator", loc @@ [etas |-> args.etas])

\* torch.Generator: its seed and the number of samples drawn from it
Generator(seed) == [seed |-> seed, drawn |-> 0]

\* the seeds of a generator that is seeded by chance also when the seed is 0
SeedsUnlessZero(seed) ==
    IF seed.isnone \/ seed.seed = 0 THEN RandomSeeds ELSE {seed.seed}

\* generator.seed() if seed is None else generator.manual_seed(seed): the seeds
\* the generator can get
SeedsOf(seed) == IF seed.isnone THEN RandomSeeds ELSE {seed.seed}

\* a new generator, seeded with the seed given or with a random one
SmeGenerator ==
    /\ pc = "sme_generator"
    /\ \E s \in SeedsOf(args.seed) :
          Goto("sme_define", loc @@ [generator |-> Generator(s)])

\* solver = SOLVER_CLASS(H, y0, tsave, tmeas, E, options, L=L, etas=etas,
\* generator=generator)
SmeDefineSolver ==
    /\ pc = "sme_define"
    /\ integ' = Integrator(loc.SOLVER_CLASS, loc.H, loc.y0, loc.tsave, loc.tmeas,
                           loc.nE, loc.options,
                           [family |-> "sme", L |-> loc.L, etas |-> loc.etas,
                            generator |-> loc.generator])
    /\ pc' = "sme_run"
    /\ UNCHANGED <<args, loc, ret>>
    /\ UNCHANGED <<tvars, done>>

\* the step size of the Euler solver the caller passes
EulerDt == 1

\* the k-th sample drawn from a generator seeded with `seed`
Normal(seed, k) == (((seed + 1) * (k + 2)) % 13) - 6

\* SMESolver.sample_wiener: the increments drawn, and the generator after it
sample_wiener(generator, dt) ==
    [dw |-> Normal(generator.seed, generator.drawn + 1),
     generator |-> [generator EXCEPT !.drawn = @ + 1]]

\* SMESolver.update_meas, lindbladian and diff_backaction
update_meas(meas, dw, rho) == Term("update_meas", 0, dw, <<meas, rho>>)
lindbladian(t, rho) == Term("lindbladian", t, 0, <<rho>>)
diff_backaction(dw, rho) == Term("diff_backaction", 0, dw, <<rho>>)

\* y + dt * f(t, y)
ExplicitEulerStep(t, dt, dw, rho) == Sum(rho, Scaled(dt, lindbladian(t, rho)))

\* SMEEuler.forward: rho + drho
SMEEulerForward(t, dt, dw, rho) ==
    Sum(rho, Sum(Scaled(dt, lindbladian(t, rho)), diff_backaction(dw, rho)))

\* the run of an SMEEuler integrator is at a step of forward
InForward(fpc) ==
    /\ pc = "sme_run"
    /\ integ.class = "SMEEuler"
    /\ integ.run.fpc = fpc
    /\ integ.run.t < integ.tsave[Len(integ.tsave)]

\* forward: dw = self.sample_wiener(self.dt)
SMEEulerSampleWiener ==
    /\ InForward("sample")
    /\ LET s == sample_wiener(integ.more.generator, EulerDt)
       IN  integ' = [integ EXCEPT !.state = "running",
                                  !.more.generator = s.generator,
                                  !.run.dw = s.dw,
                                  !.run.fpc = "meas"]
    /\ UNCHANGED <<pc, args, loc, ret>>
    /\ UNCHANGED <<tvars, done>>

\* forward: self.update_meas(dw, rho)
SMEEulerUpdateMeas ==
    /\ InForward("meas")
    /\ integ' = [integ EXCEPT
                    !.run.meas = update_meas(@, integ.run.dw, integ.run.rho),
                    !.run.fpc = "state"]
    /\ UNCHANGED <<pc, args, loc, ret>>
    /\ UNCHANGED <<tvars, done>>

\* forward: drho = ...; return rho + drho. The run goes on at t + dt and saves
\* the state if that is a time of tsave.
SMEEulerUpdateState ==
    /\ InForward("state")
    /\ LET rho == SMEEulerForward(integ.run.t, EulerDt, integ.run.dw, integ.run.rho)
           t == integ.run.t + EulerDt
       IN  integ' = [integ EXCEPT
                        !.run.rho = rho,
                        !.run.t = t,
                        !.run.saved = IF t \in SeqRange(integ.tsave)
                                      THEN Append(@, rho) ELSE @,
                        !.run.fpc = "sample"]
    /\ UNCHANGED <<pc, args, loc, ret>>
    /\ UNCHANGED <<tvars, done>>

\* result = solver.run(): the run is over
SmeRun ==
    /\ pc = "sme_run"
    /\ integ.class = "SMEEuler" => integ.run.t >= integ.tsave[Len(integ.tsave)]
    /\ integ' = [integ EXCEPT !.state = "ran"]
    /\ loc' = loc @@ [result |-> [variant |-> "Result", ysave |-> SavedStates(integ),
                                   Esave |-> SavedExpects(integ),
                                   Lmsave |-> SavedMeasurements(integ),
                                   states |-> integ.run.saved,
                                   meas |-> integ.run.meas]]
    /\ pc' = "sme_return"
    /\ UNCHANGED <<args, ret>>
    /\ UNCHANGED <<tvars, done>>

\* the channel axis of the measurements is moved behind the batch axes, the
\* batch axes of size 1 are removed and the result is returned
SmeReturn ==
    /\ pc = "sme_return"
    /\ ret' = [loc.result EXCEPT
                  !.ysave = Squeeze(@, loc.dim_squeeze),
                  !.Esave = Squeeze(@, loc.dim_squeeze),
                  !.Lmsave = Squeeze(IF loc.options.options.cartesian_batching
                                     THEN Permute(@, <<1, 2, 3, 4, 0, 5>>)
                                     ELSE Permute(@, <<1, 2, 0, 3>>),
                                     loc.dim_squeeze)]
    /\ pc' = "returned"
    /\ UNCHANGED <<args, loc, integ>>
    /\ UNCHANGED <<tvars, done>>

\* smesolve once it is called
SmeSteps ==
    \/ SmeCheckSolver
    \/ SmeOptions
    \/ SmeSolverClass
    \/ SmeCheckJumpOps
    \/ SmeCheckExpOps
    \/ SmeConvertH
    \/ SmeConvertL
    \/ SmeConvertY0
    \/ SmeBatch
    \/ SmeConvertTimes
    \/ SmeConvertEtas
    \/ SmeGenerator
    \/ SmeDefineSolver
    \/ SMEEulerSampleWiener
    \/ SMEEulerUpdateMeas
    \/ SMEEulerUpdateState
    \/ SmeRun
    \/ SmeReturn

smesolve ==
    \/ SmeCall
    \/ SmeSteps

\* the caller is done with what the call returned or raised, and nothing of the
\* call is left
Forget ==
    /\ pc = "returned"
    /\ pc' = "idle"
    /\ args' = NoArgs
    /\ loc' = NoLocals
    /\ integ' = NoIntegrator
    /\ ret' = NoReturn
    /\ UNCHANGED <<tvars, done>>

NextSolve ==
    \/ sesolve
    \/ smesolve
    \/ Forget

\* the solve calls
SpecSolve == Init /\ [][NextSolve]_vars

\* smesolve calls with the Euler solver that differ in the seed and in the
\* efficiency of the one channel
SeedCalls ==
    { SmeArgs(Hamiltonian("array", 0), JumpOps("list", 1, 0), etas,
              Batched(0, <<N, N>>), GoodTsave, ExpOps("None", 0), NoTimes, 1, seed,
              SolverOf("Euler"), "None", OptionsDict(TRUE, TRUE)) :
        etas \in {<<10>>, <<5>>}, seed \in {NoSeed, Seed(0), Seed(1)} }

\* the caller keeps what the call was given and what it returned, and the
\* generator it used, and is ready for the next call
Again ==
    /\ pc = "returned"
    /\ done' = [kept |-> TRUE, args |-> args, ret |-> ret,
                generator |-> IF integ = NoIntegrator THEN Generator(0)
                              ELSE integ.more.generator]
    /\ pc' = "idle"
    /\ args' = NoArgs
    /\ loc' = NoLocals
    /\ integ' = NoIntegrator
    /\ ret' = NoReturn
    /\ UNCHANGED tvars

NextSme ==
    \/ SmeCallOf(SeedCalls)
    \/ SmeSteps
    \/ Again

\* successive smesolve calls that step with the stochastic Euler integrator
SpecSme == Init /\ [][NextSme]_vars

\* --------------------------------------------------------------- propagators
\* a tensor an integrator holds: its shape and the expression that gives it
Valued(shape, term) == [shape |-> shape, term |-> term]

\* torch.matrix_exp(a) and a @ b
MatrixExp(a) == Valued(a.shape, Term("matrix_exp", 0, 0, <<a.term>>))
MatMul(a, b) == Valued(<<a.shape[1], b.shape[2]>>, Term("matmul", 0, 0, <<a.term, b.term>>))

\* a * delta_t and -1j * a
TimesStep(a, delta_t) == Valued(a.shape, Scaled(delta_t, a.term))
TimesMinusI(a) == Valued(a.shape, Term("mul -1j", 0, 0, <<a.term>>))

\* utils.vectorization: the Lindbladian superoperator of H and L, and the
\* density matrix as a vector
slindbladian(H, L) ==
    Valued(<<H.shape[1] * H.shape[1], H.shape[2] * H.shape[2]>>,
           Term("slindbladian", 0, 0, <<H.term, L.term>>))
operator_to_vector(y) ==
    Valued(<<y.shape[1] * y.shape[2], 1>>, Term("operator_to_vector", 0, 0, <<y.term>>))

\* the step sizes forward is called with
StepSizes == {1, 2, 3}

\* an empty cache of a method under @cache
EmptyCache == [full |-> FALSE, key |-> 0, val |-> Valued(<<>>, Given("none"))]

\* what every Propagator integrator holds: its state y, its cache of
\* `propagator`, and how often forward was called and matrix_exp computed
PropagatorObject(class, y0) ==
    [state |-> "constructed", class |-> class, y |-> y0, cache |-> EmptyCache,
     steps |-> 0, computed |-> 0, dt |-> 0]

\* SEPropagator(H, y0, ...)
SEPropagator ==
    PropagatorObject("SEPropagator", Valued(<<N, 1>>, Given("y0")))
    @@ [H |-> Valued(<<N, N>>, Given("H"))]

\* MEPropagator.__init__
MEPropagator ==
    LET H == Valued(<<N, N>>, Given("H"))
        L == Valued(<<N, N>>, Given("L"))
    IN  PropagatorObject("MEPropagator",
                         operator_to_vector(Valued(<<N, N>>, Given("y0"))))
        @@ [H |-> H, L |-> L, lindbladian |-> slindbladian(H, L)]

\* exp(-1j * H), whatever the step
SEUnitPropagator(self, delta_t) == MatrixExp(TimesMinusI(self.H))

\* the body of SEPropagator.propagator
SEPropagatorBody(self, delta_t) ==
    MatrixExp(TimesStep(TimesMinusI(self.H), delta_t))

\* the body of MEPropagator.propagator
MEPropagatorBody(self, delta_t) == MatrixExp(TimesStep(self.lindbladian, delta_t))

\* _utils.cache: the entry kept is the result for the argument `key`
SameKey(entry, key) == entry.full /\ entry.key = key

\* self.propagator(delta_t) under @cache: the tensor returned, whether the body
\* was run for it, and the cache afterwards
propagator(self, delta_t) ==
    IF SameKey(self.cache, delta_t)
    THEN [val |-> self.cache.val, fresh |-> FALSE, cache |-> self.cache]
    ELSE LET val == IF self.class = "SEPropagator"
                    THEN SEPropagatorBody(self, delta_t)
                    ELSE MEPropagatorBody(self, delta_t)
         IN  [val |-> val, fresh |-> TRUE,
              cache |-> [full |-> TRUE, key |-> delta_t, val |-> val]]

\* a Propagator integrator is constructed
PropagatorInit ==
    /\ pc = "idle"
    /\ integ = NoIntegrator
    /\ integ' \in {SEPropagator, MEPropagator}
    /\ UNCHANGED <<pc, args, loc, ret, done>>
    /\ UNCHANGED tvars

\* forward(t, delta_t, y): self.propagator(delta_t) @ y; the integrator goes on
\* from what forward returns
PropagatorForward ==
    /\ integ # NoIntegrator
    /\ integ.class \in {"SEPropagator", "MEPropagator"}
    /\ integ.steps < MaxSteps
    /\ \E delta_t \in StepSizes :
          LET p == propagator(integ, delta_t)
              out == MatMul(p.val, integ.y)
          IN  /\ integ' = [integ EXCEPT !.state = "running",
                                        !.y = out,
                                        !.cache = p.cache,
                                        !.steps = @ + 1,
                                        !.computed = IF p.fresh THEN @ + 1 ELSE @,
                                        !.dt = delta_t]
              /\ last' = [act |-> "forward", delta_t |-> delta_t, before |-> integ.dt,
                          y |-> integ.y, out |-> out, fresh |-> p.fresh]
    /\ UNCHANGED <<pc, args, loc, ret, done>>
    /\ UNCHANGED <<ops, hist, cache, flog, nobj, evals>>

NextPropagator ==
    \/ PropagatorInit
    \/ PropagatorForward

\* the steps of the Propagator integrators
SpecPropagator == Init /\ [][NextPropagator]_vars

\* ------------------------------------------------------------------ claims
\* the operands of the operation that made ops[i]
Left(i) == ops[hist[i].a]
Right(i) == ops[hist[i].b]

MadeBy(i, op) == hist[i].op = op

FromTuple3(i) == MadeBy(i, "totime") /\ hist[i].x.x.kind = "tuple3"

\* the index k of the interval [times[k], times[k+1]) that holds t, 0 if none
IntervalOf(times, t) ==
    IF \E k \in 1..(Len(times) - 1) : times[k] <= t /\ t < times[k + 1]
    THEN CHOOSE k \in 1..(Len(times) - 1) : times[k] <= t /\ t < times[k + 1]
    ELSE 0

\* what the claim expects of an operator made from (times, values, tensor) whose
\* static part is `static`
ExpectedPWC(x, static, t) ==
    IF IntervalOf(x.times, t) = 0 THEN static
    ELSE TAdd(TScale(x.tensor, x.values.data[IntervalOf(x.times, t)]), static)

\* C1: an operator totime builds from (times, values, tensor) with 1-D values
\* evaluates at t in [times[k], times[k+1]) to values[k] * tensor plus the
\* static part, and at t < times[0] or t >= times[-1] to the static part; the
\* static part is zero as built, and the tensor added when a plain tensor was
\* added to the operator.
C1_PWCIntervalValue ==
    \A i \in 1..Len(ops) :
        /\ FromTuple3(i) =>
              \A t \in TimeSet :
                  /\ ops[i].static = TZerosLike(hist[i].x.x.tensor)
                  /\ CallOK(ops[i], t)
                  /\ Call(ops[i], t) = ExpectedPWC(hist[i].x.x, ops[i].static, t)
        /\ (MadeBy(i, "addT") /\ FromTuple3(hist[i].a)) =>
              \A t \in TimeSet :
                  /\ ops[i].static = hist[i].x
                  /\ CallOK(ops[i], t)
                  /\ Call(ops[i], t) = ExpectedPWC(hist[hist[i].a].x.x, hist[i].x, t)

\* a state where C1's cases happen: a two-interval operator with a plain tensor
\* added, whose values inside, at the inner breakpoint and outside all differ
C1_Witness ==
    \E i \in 1..Len(ops) :
        /\ MadeBy(i, "addT") /\ FromTuple3(hist[i].a)
        /\ Len(ops[i].times) = 3
        /\ Call(ops[i], ops[i].times[2]) # Call(ops[i], ops[i].times[1])
        /\ Call(ops[i], ops[i].times[3]) = hist[i].x
        /\ Call(ops[i], ops[i].times[1] - 1) = hist[i].x
        /\ Call(ops[i], ops[i].times[3] - 1) = Call(ops[i], ops[i].times[2])

PWCSum(i) ==
    /\ MadeBy(i, "add")
    /\ Left(i).variant = "PWC"
    /\ Right(i).variant = "PWC"

\* C2: the sum of two piecewise-constant operators has the sorted union of their
\* breakpoints, without duplicates, and evaluates at every t to the sum of what
\* the two evaluate to.
C2_PWCSumIsPointwiseSum ==
    \A i \in 1..Len(ops) :
        PWCSum(i) =>
            /\ ops[i].times = SetToSortedSeq(SeqRange(Left(i).times) \cup SeqRange(Right(i).times))
            /\ \A t \in TimeSet :
                  (CallOK(Left(i), t) /\ CallOK(Right(i), t)) =>
                      /\ CallOK(ops[i], t)
                      /\ Call(ops[i], t) = TAdd(Call(Left(i), t), Call(Right(i), t))

\* C2 for operands of one shape.
C2_PWCSumOfOneShape ==
    \A i \in 1..Len(ops) :
        (PWCSum(i) /\ Shape(Left(i)) = Shape(Right(i))) =>
            /\ ops[i].times = SetToSortedSeq(SeqRange(Left(i).times) \cup SeqRange(Right(i).times))
            /\ \A k \in 1..(Len(ops[i].times) - 1) : ops[i].times[k] < ops[i].times[k + 1]
            /\ \A t \in TimeSet :
                  (CallOK(Left(i), t) /\ CallOK(Right(i), t)) =>
                      /\ CallOK(ops[i], t)
                      /\ Call(ops[i], t) = TAdd(Call(Left(i), t), Call(Right(i), t))

\* C3: X.adjoint() evaluates, wherever X does, to the conjugate transpose of
\* what X evaluates to.
C3_AdjointIsConjugateTranspose ==
    \A i \in 1..Len(ops) :
        MadeBy(i, "adjoint") =>
            \A t \in TimeSet :
                CallOK(Left(i), t) =>
                    /\ CallOK(ops[i], t)
                    /\ Call(ops[i], t) = TAdjoint(Call(Left(i), t))

\* a state where C3's case happens: the adjoint of a piecewise-constant operator
\* with a plain tensor added, which differs from the operator both inside its
\* range and outside
C3_Witness ==
    \E i \in 1..Len(ops) :
        /\ MadeBy(i, "adjoint")
        /\ Left(i).variant = "PWC"
        /\ hist[hist[i].a].op \in {"addT", "raddT"}
        /\ \E t \in TimeSet :
              /\ t >= Left(i).times[1] /\ t < Left(i).times[Len(Left(i).times)]
              /\ CallOK(Left(i), t)
              /\ Call(ops[i], t) # Call(Left(i), t)
        /\ \E t \in TimeSet :
              /\ t >= Left(i).times[Len(Left(i).times)]
              /\ CallOK(Left(i), t)
              /\ Call(ops[i], t) # Call(Left(i), t)

NonConstant == {"Callable", "PWC", "Modulated"}

\* C4: view, adjoint, negation and scaling keep the variant; so does adding an
\* operator of the same variant; adding a plain tensor, or a Constant operator on
\* either side, to a Callable, PWC or Modulated operator gives that variant;
\* Constant plus Constant or plus a plain tensor gives a Constant.
C4_VariantIsKept ==
    /\ \A i \in 1..Len(ops) :
          /\ hist[i].op \in {"view", "adjoint", "neg", "mul", "addT", "raddT"} =>
                ops[i].variant = Left(i).variant
          /\ (MadeBy(i, "add") /\ Left(i).variant = Right(i).variant) =>
                ops[i].variant = Left(i).variant
          /\ (MadeBy(i, "add") /\ Left(i).variant = "Constant") =>
                ops[i].variant = Right(i).variant
          /\ (MadeBy(i, "add") /\ Right(i).variant = "Constant") =>
                ops[i].variant = Left(i).variant
    /\ (last.act \in {"view", "adjoint", "neg", "mul", "addT", "raddT"}) => last.ok
    /\ (/\ last.act = "add"
        /\ \/ ops[last.how.a].variant = ops[last.how.b].variant
           \/ ops[last.how.a].variant = "Constant"
           \/ ops[last.how.b].variant = "Constant") => last.ok

\* a state where C4's case happens: a Constant operator on the left of a
\* Callable, PWC or Modulated operator
C4_Witness ==
    /\ last.act = "add"
    /\ ops[last.how.a].variant = "Constant"
    /\ ops[last.how.b].variant \in NonConstant
    /\ last.ok
    /\ ops[last.new].variant = ops[last.how.b].variant

\* the two latest evaluations, when the last step was a successful evaluation
\* of an operator of `variant`
Earlier == evals[1]
Latest == evals[2]

Evaluated2(variant) ==
    /\ Len(evals) = 2
    /\ last.act = "call"
    /\ last.ok
    /\ ops[last.i].variant = variant

\* C5: a Callable operator evaluated twice in a row at one t gives the same
\* tensor object, without calling the caller's function again; evaluated at
\* another t it calls the function at that t and gives a new object; and what an
\* evaluation gives was always made by an evaluation of that same instance.
C5_CallableCache ==
    Evaluated2("Callable") =>
        /\ Latest.obj.by = Latest.i
        /\ Latest.val = CallableCall(ops[Latest.i], Latest.t)
        /\ (Earlier.i = Latest.i /\ Earlier.t = Latest.t) =>
              /\ Latest.obj = Earlier.obj
              /\ flog = <<>>
        /\ (Earlier.i = Latest.i /\ Earlier.t # Latest.t) =>
              /\ Latest.obj # Earlier.obj
              /\ flog = FnTrace(ops[Latest.i].f, Latest.t)
        /\ (Earlier.i # Latest.i) => Latest.obj # Earlier.obj

\* a state where C5's case happens: an instance made by view, negation or add,
\* evaluated twice in a row at the t its operand was evaluated at before
C5_Witness ==
    /\ Evaluated2("Callable")
    /\ hist[Latest.i].op \in {"view", "neg", "add"}
    /\ Earlier.i = Latest.i
    /\ Earlier.t = Latest.t
    /\ Latest.obj = Earlier.obj
    /\ cache[hist[Latest.i].a].full
    /\ cache[hist[Latest.i].a].key = Latest.t
    /\ cache[hist[Latest.i].a].obj # Latest.obj

\* C6: a Modulated operator evaluated twice in a row at one t gives the same
\* tensor object.
C6_ModulatedSameObject ==
    (Evaluated2("Modulated") /\ Earlier.i = Latest.i /\ Earlier.t = Latest.t) =>
        Latest.obj = Earlier.obj

\* the last step was totime on an input of `kind`
TotimeOf(kind) == last.act = "totime" /\ last.how.x.x.kind = kind

\* f(0.0) of the function the last totime was given, and what was declared
F0 == UserCall(last.how.x.x.id, 0)
Declared == [dtype |-> get_cdtype(last.how.x.dtype), device |-> to_device(last.how.x.device)]

\* C7: totime on a function calls it once, at 0, and raises a TypeError, making
\* no operator, if the value is not a tensor or its dtype or device is not the
\* declared one; otherwise it gives a Callable operator. Evaluating that operator
\* later gives what the function returns, whatever its dtype and device.
C7_Step ==
    /\ TotimeOf("function")' =>
          /\ flog' = <<[id |-> last'.how.x.x.id, t |-> 0]>>
          /\ IF IsTensor(F0') /\ F0'.dtype = Declared'.dtype /\ F0'.device = Declared'.device
             THEN /\ last'.ok
                  /\ ops' = Append(ops, ops'[Len(ops')])
                  /\ ops'[Len(ops')].variant = "Callable"
             ELSE /\ ~last'.ok
                  /\ last'.error.variant = "TypeError"
                  /\ ops' = ops
    /\ (/\ last'.act = "call"
        /\ ops[last'.i].variant = "Callable"
        /\ hist[last'.i].op = "totime") =>
          /\ last'.ok
          /\ last'.val = UserCall(hist[last'.i].x.x.id, last'.t)

C7_CallableCheckedOnceAtZero == [][C7_Step]_vars

\* a state where C7's case happens: an operator made from a function that
\* returns another dtype after t = 0 has just been evaluated to such a tensor
C7_Witness ==
    /\ last.act = "call"
    /\ last.ok
    /\ ops[last.i].variant = "Callable"
    /\ last.val.dtype # get_cdtype(hist[last.i].x.dtype)

\* whether totime accepts the pair (f, tensor) it was given last, when f(0.0)
\* has to have one of `dtypes`
PairAccepted(dtypes) ==
    /\ last.how.x.x.callable
    /\ IsTensor(F0)
    /\ F0.device = Declared.device
    /\ F0.dtype \in dtypes
    /\ IsSquareMatrix(last.how.x.x.tensor)

PairOutcome(dtypes) ==
    TotimeOf("tuple2") =>
        IF PairAccepted(dtypes)
        THEN last.ok /\ ops[last.new].variant = "Modulated"
        ELSE ~last.ok /\ last.error.variant = "TypeError"

\* C8 as stated: totime on a pair (f, tensor) raises a TypeError whenever the
\* dtype or the device of f(0.0) is not the declared one, and gives a Modulated
\* operator only when both are the declared ones.
C8_PairNeedsDeclaredDType == PairOutcome({Declared.dtype})

\* C8: totime on a pair (f, tensor) raises a TypeError whenever the device of
\* f(0.0) is not the declared one, or its dtype is neither the declared dtype nor
\* the real dtype of the same precision, and gives a Modulated operator only when
\* the device is the declared one and the dtype one of those two.
C8_PairNeedsDeclaredOrRealDType ==
    PairOutcome({Declared.dtype, dtype_complex_to_real(Declared.dtype)})

\* a state where C8's case happens: f(0.0) has the real dtype of the declared
\* precision and totime gave a Modulated operator
C8_Witness ==
    /\ TotimeOf("tuple2")
    /\ last.ok
    /\ F0.dtype # Declared.dtype
    /\ F0.dtype = dtype_complex_to_real(Declared.dtype)
    /\ ops[last.new].variant = "Modulated"

\* the batch size of an argument given with `shape`, whose matrices have
\* `rank` axes
BatchSize(shape, rank) == IF Len(shape) = rank THEN 1 ELSE shape[1]

\* the sizes of `sizes` that are not 1, in order
RECURSIVE NotOne(_)
NotOne(sizes) ==
    IF sizes = <<>> THEN <<>>
    ELSE (IF Head(sizes) = 1 THEN <<>> ELSE <<Head(sizes)>>) \o NotOne(Tail(sizes))

\* the batch sizes of the Hamiltonian and of the state of the sesolve call
SeSizes == <<BatchSize(args.H.shape, 2), BatchSize(args.psi0, 2)>>

\* the leading axes C9 expects of what a sesolve call returns
SeLeading ==
    IF args.options.cartesian_batching THEN NotOne(SeSizes)
    ELSE NotOne(<<Max2(SeSizes[1], SeSizes[2])>>)

SeReturned == pc = "returned" /\ args.family = "se" /\ ret.variant = "Result"

\* C9: what sesolve returns has, under cartesian batching, the leading axes
\* (bH, by) without those of size 1, and under zip batching the one leading axis
\* b, the common size of bH and by, without it if b = 1; the states follow with
\* the axes (len(tsave), n, 1), or (n, 1) when only the last state is saved, and
\* the expectation values with (len(exp_ops), len(tsave)).
C9_SesolveLeadingAxes ==
    SeReturned =>
        /\ ret.ysave.shape =
              SeLeading \o
              (IF args.options.save_states THEN <<Len(args.tsave)>> ELSE <<>>) \o
              <<N, 1>>
        /\ args.exp_ops.len > 0 =>
              ret.Esave.shape = SeLeading \o <<args.exp_ops.len, Len(args.tsave)>>

\* a state where C9's case happens: bH = 2 and by = 3 under cartesian batching
C9_Witness ==
    /\ SeReturned
    /\ args.options.cartesian_batching
    /\ args.options.save_states
    /\ SeSizes = <<2, 3>>
    /\ ret.ysave.shape = <<2, 3, Len(args.tsave), N, 1>>
    /\ ret.Esave.shape = <<2, 3, args.exp_ops.len, Len(args.tsave)>>

\* the call in progress, or just over, is one under zip batching that has come
\* past the place where the batch sizes are compared
PastZip ==
    /\ args.family \in {"se", "sme"}
    /\ ~args.options.cartesian_batching
    /\ "by" \in DOMAIN loc
    /\ pc \notin {"se_batch", "sme_batch"}

\* the arguments with a batch size, by name, and their sizes
Sized ==
    IF args.family = "se"
    THEN <<<<"H", BatchSize(args.H.shape, 2)>>, <<"psi0", BatchSize(args.psi0, 2)>>>>
    ELSE <<<<"H", BatchSize(args.H.shape, 2)>>,
           <<"jump_ops", BatchSize(args.jump_ops.shape, 2)>>,
           <<"rho0", BatchSize(args.rho0, 2)>>>>

\* two of the sizes differ and neither is 1
SizesDisagree ==
    \E i, j \in 1..Len(Sized) :
        Sized[i][2] # Sized[j][2] /\ Sized[i][2] # 1 /\ Sized[j][2] # 1

\* the largest of the sizes
LargestSize == CHOOSE b \in {Sized[i][2] : i \in 1..Len(Sized)} :
                   \A i \in 1..Len(Sized) : Sized[i][2] <= b

\* C10: under zip batching sesolve and smesolve raise a ValueError that names
\* each argument and its batch size, with no integrator constructed, exactly
\* when two of the batch sizes differ and neither is 1; otherwise the call goes
\* on, with a state of batch size 1 repeated up to the common size.
C10_ZipBatchSizes ==
    PastZip =>
        IF SizesDisagree
        THEN /\ pc = "returned"
             /\ ret.variant = "ValueError"
             /\ ret.msg = "batch"
             /\ ret.names = Sized
             /\ integ = NoIntegrator
        ELSE /\ "b" \in DOMAIN loc
             /\ loc.b = LargestSize
             /\ loc.y0[1] = LargestSize
             /\ pc = "returned" => ~(ret.variant = "ValueError" /\ ret.msg = "batch")

\* a state where C10's case happens: smesolve under zip batching, with batch
\* sizes 2 and 3 among its arguments, has raised
C10_Witness ==
    /\ PastZip
    /\ args.family = "sme"
    /\ SizesDisagree
    /\ \E i, j \in 1..Len(Sized) : Sized[i][2] = 2 /\ Sized[j][2] = 3
    /\ pc = "returned"
    /\ ret.variant = "ValueError"

\* the batch sizes of the Hamiltonian, the jump operators and the state of the
\* smesolve call
SmeSizes ==
    <<BatchSize(args.H.shape, 2), BatchSize(args.jump_ops.shape, 2),
      BatchSize(args.rho0, 2)>>

\* the leading batch axes C11 expects of what a smesolve call returns
SmeLeading ==
    IF args.options.cartesian_batching THEN NotOne(SmeSizes)
    ELSE NotOne(<<Max2(SmeSizes[1], Max2(SmeSizes[2], SmeSizes[3]))>>)

SmeReturned == pc = "returned" /\ args.family = "sme" /\ ret.variant = "Result"

\* the number of monitored channels and of measurement intervals of the call
Monitored == Cardinality({k \in 1..Len(args.etas) : args.etas[k] # 0})
Intervals ==
    LET tmeas == IF args.tmeas.isnone THEN args.tsave ELSE args.tmeas.times
    IN  IF tmeas = <<>> THEN 0 ELSE Len(tmeas) - 1

SupportedSchemes ==
    IF args.family = "se" THEN {"Propagator", "Euler", "BackwardEuler", "Dopri5"}
    ELSE {"Euler", "Rouchon1"}

\* the call asks for a scheme its family does not support, or for none where
\* there is no default
UnsupportedScheme ==
    /\ args.family \in {"se", "sme"}
    /\ IF args.solver = NoSolver THEN args.family = "sme"
       ELSE args.solver.bases \cap SupportedSchemes = {}

\* what C12 expects of such a call
SchemeRefused ==
    /\ integ = NoIntegrator
    /\ pc = "returned" =>
          /\ ret.variant = "ValueError"
          /\ IF args.solver = NoSolver THEN ret.msg = "no default solver"
             ELSE ret.msg = "solver" /\ ret.supported = SupportedSchemes

\* C12: a solve call that asks for a scheme its family does not support (for
\* smesolve also: for none) raises a ValueError that lists the schemes the
\* family supports (for none: one that asks for a scheme), and no integrator is
\* constructed.
C12_UnsupportedSchemeError == UnsupportedScheme => SchemeRefused

\* the same for the calls that ask for no gradient
C12_WithoutGradient == (UnsupportedScheme /\ args.gradient = "None") => SchemeRefused

\* the smesolve call has no channel, or efficiencies that are all 0, or one that
\* is below 0 or above 1 (efficiencies are in tenths)
BadChannels ==
    /\ args.family = "sme"
    /\ \/ args.jump_ops.kind = "list" /\ args.jump_ops.len = 0
       \/ \A k \in 1..Len(args.etas) : args.etas[k] = 0
       \/ \E k \in 1..Len(args.etas) : args.etas[k] < 0 \/ args.etas[k] > 10

\* the errors of the checks on the channels
ChannelErrors == {"jump_ops", "etas all zero", "etas range"}

\* what C13 expects of the call
ChannelsValidated ==
    /\ BadChannels =>
          /\ integ = NoIntegrator
          /\ pc = "returned" => ret.variant \in {"ValueError", "TypeError"}
    /\ (args.family = "sme" /\ ~BadChannels /\ args.jump_ops.kind = "list"
        /\ pc = "returned" /\ ret.variant = "ValueError") =>
          ret.msg \notin ChannelErrors

\* C13: smesolve raises a ValueError or a TypeError, with no integrator
\* constructed, on every call with an empty list of jump operators, with
\* efficiencies that are all 0, or with an efficiency below 0 or above 1; a call
\* with a non-empty list and efficiencies in [0, 1] that are not all 0 is not
\* refused by these checks.
C13_ChannelsValidated == ChannelsValidated

\* the call runs into one of the defects of other checks: a solver of a class
\* derived from a supported one, a gradient asked of an object that is no
\* Solver, or a number of efficiencies that is not the number of jump operators
OtherDefects ==
    /\ args.family \in {"se", "sme"}
    /\ \/ /\ args.solver.bases \cap SupportedSchemes # {}
          /\ args.solver.type \notin SupportedSchemes
       \/ args.gradient # "None" /\ args.solver # NoSolver /\ "Solver" \notin args.solver.bases
       \/ /\ args.family = "sme"
          /\ args.jump_ops.kind = "list"
          /\ args.jump_ops.len > 0
          /\ Len(args.etas) # args.jump_ops.len

\* the same for the calls that run into none of those
C13_ApartFromOtherDefects == ~OtherDefects => ChannelsValidated

\* the smesolve call in progress, or just over, has come past the place where
\* the efficiencies are converted and checked
PastEtas ==
    /\ args.family = "sme"
    /\ "tmeas" \in DOMAIN loc
    /\ pc # "sme_etas"

\* C14: when etas has not as many elements as jump_ops, smesolve raises the
\* ValueError that says that etas must have the length of jump_ops and gives
\* both lengths, and no integrator is constructed.
C14_EtasLengthError ==
    (PastEtas /\ Len(args.etas) # args.jump_ops.len) =>
        /\ pc = "returned"
        /\ ret.variant = "ValueError"
        /\ ret.msg = "etas length"
        /\ ret.names = <<<<"jump_ops", args.jump_ops.len>>, <<"etas", Len(args.etas)>>>>
        /\ integ = NoIntegrator

\* times are not empty and strictly ascending
Ascending(times) ==
    /\ times # <<>>
    /\ \A i, j \in 1..Len(times) : i < j => times[i] < times[j]

\* the solver of the call, Dopri5 when sesolve is given none
RequestedSolver ==
    IF args.solver = NoSolver /\ args.family = "se" THEN SolverOf("Dopri5")
    ELSE args.solver

\* no gradient is asked for, or one the solver supports: Autograd with every
\* solver, Adjoint with every solver but Propagator
GradientSupported ==
    \/ args.gradient = "None"
    \/ /\ "Solver" \in RequestedSolver.bases
       /\ args.gradient = "Adjoint" => "Propagator" \notin RequestedSolver.bases

\* the checks both entry points make on the arguments of the call
CommonChecksPass ==
    /\ GradientSupported
    /\ ~UnsupportedScheme
    /\ args.exp_ops.kind \in {"None", "list"}
    /\ args.H.kind \in {"array", "TimeTensor"}
    /\ ~args.options.cartesian_batching => ~SizesDisagree
    /\ Ascending(args.tsave)

\* the checks smesolve makes on top of them
SmeChecksPass ==
    /\ args.jump_ops.kind = "list"
    /\ ~BadChannels
    /\ Len(args.etas) = args.jump_ops.len
    /\ args.tmeas.isnone \/ args.tmeas.times = <<>> \/ Ascending(args.tmeas.times)

AllChecksPass ==
    /\ args.family \in {"se", "sme"}
    /\ CommonChecksPass
    /\ args.family = "sme" => SmeChecksPass

\* C15: in sesolve and smesolve the integrator is constructed and run, and a
\* Result is returned, only when the arguments pass every check; a call that
\* ends with an exception has constructed no integrator.
C15_ChecksBeforeIntegrator ==
    /\ (integ # NoIntegrator \/ ret.variant = "Result") => AllChecksPass
    /\ (pc = "returned" /\ ret.variant # "Result") => integ = NoIntegrator
    /\ ret.variant = "Result" => integ.state = "ran"

\* a state where C15's case happens: a call refused by the last check on the
\* efficiencies has returned, and no integrator was constructed
C15_Witness ==
    /\ pc = "returned"
    /\ args.family = "sme"
    /\ ret.variant = "ValueError"
    /\ ret.msg = "etas range"
    /\ integ = NoIntegrator

\* the call before the latest was given the same arguments and has returned a
\* Result, as the latest has
SameCallTwice ==
    /\ done.kept
    /\ pc = "returned"
    /\ args.family = "sme"
    /\ done.args = args
    /\ done.ret.variant = "Result"
    /\ ret.variant = "Result"

\* C16: every smesolve call gets a generator of its own from which nothing is
\* drawn yet, seeded with the seed given (0 included) or, with seed=None, by
\* chance; two calls with the same arguments and the same seed draw the same
\* Wiener increments and return the same states and measurement records.
C16_SeedDeterminism ==
    /\ (args.family = "sme" /\ integ # NoIntegrator) =>
          /\ integ.state = "constructed" => integ.more.generator.drawn = 0
          /\ ~args.seed.isnone => integ.more.generator.seed = args.seed.seed
          /\ args.seed.isnone => integ.more.generator.seed \in RandomSeeds
    /\ (SameCallTwice /\ ~args.seed.isnone) =>
          /\ integ.more.generator = done.generator
          /\ ret.states = done.ret.states
          /\ ret.meas = done.ret.meas
          /\ ret = done.ret

\* a state where C16's case happens: the second of two calls with seed=0 has
\* returned, and both have drawn two increments
C16_Witness ==
    /\ SameCallTwice
    /\ args.seed = Seed(0)
    /\ integ.more.generator.drawn = 2
    /\ done.generator.drawn = 2
    /\ Len(ret.states) = 2
    /\ ret = done.ret

\* two calls with seed=None and the same arguments have returned different
\* measurement records
C16_UnseededRunsDiffer ==
    /\ SameCallTwice
    /\ args.seed.isnone
    /\ ret.meas # done.ret.meas

\* the state and the measurement accumulator C20 expects after k steps of a run
\* whose generator was seeded with `seed`: step k samples the k-th increment,
\* updates the accumulator with it and with the state before the step, and
\* gives the state rho + dt * lindbladian(t, rho) + diff_backaction(dw, rho)
RECURSIVE StateAfter(_, _)
StateAfter(seed, k) ==
    IF k = 0 THEN Given("y0")
    ELSE LET rho == StateAfter(seed, k - 1)
             dw == Normal(seed, k)
             t == (k - 1) * EulerDt
         IN  Sum(rho, Sum(Scaled(EulerDt, lindbladian(t, rho)),
                          diff_backaction(dw, rho)))

RECURSIVE RecordAfter(_, _)
RecordAfter(seed, k) ==
    IF k = 0 THEN Given("zeros")
    ELSE update_meas(RecordAfter(seed, k - 1), Normal(seed, k),
                     StateAfter(seed, k - 1))

\* an SMEEuler integrator exists
EulerRun == args.family = "sme" /\ integ # NoIntegrator /\ integ.class = "SMEEuler"

\* the number of steps of the run that are over
StepsOver == integ.run.t \div EulerDt

\* C20: every step of the SMEEuler integrator samples the Wiener increments
\* once, then updates the measurement accumulator with them and with the state
\* before the step, then computes the new state from the same increments and
\* the same state before the step: after k steps the state and the accumulator
\* are those of k such steps, and within step k + 1 the accumulator is updated
\* only once the increment k + 1 is sampled, and before the state is.
C20_EulerStepOrder ==
    EulerRun =>
        LET seed == integ.more.generator.seed
            drawn == integ.more.generator.drawn
            k == StepsOver
        IN  /\ integ.run.rho = StateAfter(seed, k)
            /\ drawn \in {k, k + 1}
            /\ integ.run.meas \in {RecordAfter(seed, k), RecordAfter(seed, k + 1)}
            /\ integ.run.meas = RecordAfter(seed, k + 1) => drawn = k + 1
            /\ drawn = k + 1 => integ.run.dw = Normal(seed, k + 1)
            /\ integ.state = "ran" =>
                  drawn = k /\ integ.run.meas = RecordAfter(seed, k)

\* a state where C20's case happens: a run of two steps is over
C20_Witness ==
    /\ EulerRun
    /\ pc = "returned"
    /\ StepsOver = 2
    /\ integ.more.generator.drawn = 2
    /\ ret.states = <<StateAfter(integ.more.generator.seed, 1),
                      StateAfter(integ.more.generator.seed, 2)>>
    /\ ret.meas = RecordAfter(integ.more.generator.seed, 2)

\* forward of a Propagator integrator was called
Stepped == last.act = "forward"

\* the generator of the integrator: -1j * H, or the Lindbladian superoperator
GeneratorOf(class) ==
    IF class = "SEPropagator" THEN Term("mul -1j", 0, 0, <<Given("H")>>)
    ELSE Term("slindbladian", 0, 0, <<Given("H"), Given("L")>>)

\* the dimension of what the integrator evolves: n, or n^2 for the vectorized
\* density matrix
DimensionOf(class) == IF class = "SEPropagator" THEN N ELSE N * N

\* exp(generator * delta_t) @ y
Propagated(class, delta_t, y) ==
    Term("matmul", 0, 0,
         <<Term("matrix_exp", 0, 0, <<Scaled(delta_t, GeneratorOf(class))>>), y>>)

\* C17: whatever the steps before, forward(t, delta_t, y) of SEPropagator and
\* MEPropagator returns exp(generator * delta_t) @ y for the delta_t it is called
\* with, and does not compute the exponential again when delta_t is that of the
\* step just before; for MEPropagator the exponential has shape (n^2, n^2) and
\* the state (n^2, 1).
C17_PropagatorPerStep ==
    Stepped =>
        /\ last.out.term = Propagated(integ.class, last.delta_t, last.y.term)
        /\ last.out.shape = <<DimensionOf(integ.class), 1>>
        /\ last.y.shape = <<DimensionOf(integ.class), 1>>
        /\ integ.cache.val.shape = <<DimensionOf(integ.class), DimensionOf(integ.class)>>
        /\ integ.cache.key = last.delta_t
        /\ last.delta_t = last.before => ~last.fresh
        /\ integ.computed <= integ.steps

\* a state where C17's case happens: an MEPropagator that has stepped with a
\* size, then another, then the first again, each time with a new exponential,
\* and then once more with the same size and the exponential kept
C17_Witness ==
    /\ Stepped
    /\ integ.class = "MEPropagator"
    /\ integ.steps = 4
    /\ integ.computed = 3
    /\ last.delta_t = 1
    /\ last.before = 1
    /\ ~last.fresh
    /\ last.out.shape = <<N * N, 1>>

\* the operators with a static part
WithStatic(i) == ops[i].variant \in {"PWC", "Modulated"}

\* C18: the static part of every PWC and Modulated operator, however it was
\* made, has the shape of the operator.
C18_StaticHasOwnShape ==
    \A i \in 1..Len(ops) : WithStatic(i) => ops[i].static.shape = Shape(ops[i])

\* the same for the operators as totime returns them
C18_StaticOfFactories ==
    \A i \in 1..Len(ops) :
        (WithStatic(i) /\ MadeBy(i, "totime")) => ops[i].static.shape = Shape(ops[i])

\* ---------------------------------------------------------------- C19
\* the tensor an operator keeps its dtype and device in
Payload(x) ==
    CASE x.variant = "Constant" -> x.tensor
      [] x.variant = "Callable" -> x.f0
      [] OTHER -> x.tensors

MatrixShape(x) == SubSeq(Shape(x), Len(Shape(x)) - 1, Len(Shape(x)))

\* the two operands of the addition just made
Augend == ops[last.how.a]
Addend == ops[last.how.b]

Mismatched ==
    \/ Payload(Augend).dtype # Payload(Addend).dtype
    \/ Payload(Augend).device # Payload(Addend).device
    \/ MatrixShape(Augend) # MatrixShape(Addend)

NamesBothOperands(error) ==
    /\ IsError(error)
    /\ "operands" \in DOMAIN error
    /\ error.operands = <<last.how.a, last.how.b>>

\* C19: adding two time operators whose dtype, device or matrix shape differ
\* fails with an error that names both operands, and makes no operator.
C19_MismatchedAddFails ==
    (last.act = "add" /\ Mismatched) =>
        (~last.ok /\ NamesBothOperands(last.error))

\* what the code does instead: two operators of one variant and of different
\* dtypes add to an operator of the promoted dtype
C19_MismatchedAddPromotes ==
    (last.act = "add" /\ Augend.variant = Addend.variant
        /\ Augend.variant \in {"Constant", "PWC"}
        /\ Payload(Augend).dtype # Payload(Addend).dtype) =>
        (last.ok /\ Payload(ops[last.new]).dtype = "c128")

\* ---------------------------------------------------------------- C21
\* the addition just made had two operators of different non-constant variants
CrossVariantAdd ==
    /\ last.act = "add"
    /\ Augend.variant \in NonConstant /\ Addend.variant \in NonConstant
    /\ Augend.variant # Addend.variant

\* C21: adding two operators of different non-constant variants raises an error
\* and makes no operator, each __add__ returning NotImplemented for the other;
\* an addition of two operators that makes an operator has operands of one
\* variant, or a Constant among them.
C21_CrossVariantAddRaises ==
    /\ CrossVariantAdd =>
          /\ ~last.ok
          /\ IsError(last.error)
          /\ Variant(DunderAdd(Augend, Addend)) = "NotImplemented"
          /\ Variant(DunderAdd(Addend, Augend)) = "NotImplemented"
    /\ (last.act = "add" /\ last.ok) =>
          \/ Augend.variant = Addend.variant
          \/ "Constant" \in {Augend.variant, Addend.variant}

\* a Callable operator and a PWC operator were added, in either order
C21_Witness ==
    /\ CrossVariantAdd
    /\ {Augend.variant, Addend.variant} = {"Callable", "PWC"}
    /\ ~last.ok

\* the error of a cross-variant addition is python's RecursionError
C21_ErrorIsRecursion ==
    CrossVariantAdd => (~last.ok /\ last.error = RecursionError)

\* ---------------------------------------------------------------- C22
\* the operator the last operation was applied to, and the one it made
Operand == ops[last.how.a]
Made == ops[last.new]

\* the last operation made an operator that evaluates at t to `value`
EvaluatesTo(t, value) ==
    /\ last.ok
    /\ CallOK(Made, t)
    /\ Call(Made, t) = value

ScaleCommutes ==
    (last.act \in {"mul", "rmul"}) =>
        \A t \in TimeSet :
            CallOK(Operand, t) => EvaluatesTo(t, TScale(Call(Operand, t), last.how.x))

NegCommutes ==
    (last.act = "neg") =>
        \A t \in TimeSet :
            CallOK(Operand, t) => EvaluatesTo(t, TNeg(Call(Operand, t)))

\* the subtrahend is of the variant of the minuend, or a Constant
Subtractable ==
    /\ last.act = "sub"
    /\ Addend.variant \in {Augend.variant, "Constant"}

SubCommutes ==
    Subtractable =>
        \A t \in TimeSet :
            (CallOK(Augend, t) /\ CallOK(Addend, t)) =>
                EvaluatesTo(t, TAdd(Call(Augend, t), TNeg(Call(Addend, t))))

\* C22: for every operator A, scalar c and time t, (A * c)(t) = (c * A)(t) =
\* c * A(t), (-A)(t) = -A(t), and (A - B)(t) = A(t) - B(t) for B of A's variant
\* or a Constant.
C22_ArithmeticCommutesWithCall == ScaleCommutes /\ NegCommutes /\ SubCommutes

\* scaling and negation alone, static part included
C22_ScaleAndNegCommute == ScaleCommutes /\ NegCommutes

\* subtraction of operands of one shape
C22_SubOfOneShapeCommutes ==
    (last.act = "sub" /\ Shape(Augend) = Shape(Addend)) => SubCommutes

\* ---------------------------------------------------------------- C23
\* the solver of the call is an instance of a class its family supports
PassesSchemeCheck ==
    /\ args.family \in {"se", "sme"}
    /\ RequestedSolver.bases \cap SupportedSchemes # {}

\* the integrator classes of the family of the call
IntegratorClasses ==
    IF args.family = "se"
    THEN {SeSolvers[c] : c \in DOMAIN SeSolvers}
    ELSE {SmeSolvers[c] : c \in DOMAIN SmeSolvers}

Dispatched ==
    /\ pc = "returned" => ret.variant # "KeyError"
    /\ "SOLVER_CLASS" \in DOMAIN loc => loc.SOLVER_CLASS \in IntegratorClasses

\* C23: a solver that passes the supported-scheme check of sesolve or smesolve,
\* an instance of a subclass included, is dispatched to one integrator class,
\* and the call never ends in a lookup failure.
C23_AcceptedSolverDispatched == PassesSchemeCheck => Dispatched

\* the same for the instances of the supported classes themselves
C23_ExactClassDispatched ==
    (PassesSchemeCheck /\ RequestedSolver.type \in SupportedSchemes) => Dispatched

\* ---------------------------------------------------------------- C24
\* ops[i](t) succeeds and has the shape ops[i] declares
CallHasDeclaredShape(i) ==
    \A t \in TimeSet :
        /\ CallOK(ops[i], t)
        /\ Call(ops[i], t).shape = Shape(ops[i])

\* C24: every operator made from the factories by view, adjoint, negation,
\* scaling and addition evaluates at every t, inside and outside a PWC range,
\* to a tensor of the shape the operator declares.
C24_CallHasDeclaredShape == \A i \in 1..Len(ops) : CallHasDeclaredShape(i)

\* ops[i] was made without an addition of two operators
RECURSIVE NoSumBehind(_)
NoSumBehind(i) ==
    CASE hist[i].op = "totime" -> TRUE
      [] hist[i].op = "add" -> FALSE
      [] OTHER -> NoSumBehind(hist[i].a)

\* the same for the operators made without adding two operators
C24_WithoutSums ==
    \A i \in 1..Len(ops) : NoSumBehind(i) => CallHasDeclaredShape(i)

\* ---------------------------------------------------------------- C25
\* the factor of ops[i], an operator totime made of a triple
FactorOf(i) == ops[i].factors[1]

\* the number of intervals between the breakpoints of the triple
IntervalCount(i) == Len(hist[i].x.x.times) - 1

InsideRange(i) ==
    { t \in TimeSet : FactorOf(i).times[1] <= t /\ t < FactorOf(i).times[Len(FactorOf(i).times)] }

IntervalsIndexValues(i) ==
    /\ FactorOf(i).nv = IntervalCount(i)
    /\ \A t \in InsideRange(i) :
          SearchSortedRight(FactorOf(i).times, t) - 1 \in 0..(FactorOf(i).nv - 1)

\* C25: for every triple (times, values, tensor) totime accepts, the factor's
\* interval count nv is len(times) - 1, and for every t in the range of the
\* breakpoints the interval found is an index into the axis of the values the
\* factor reads.
C25_IntervalCountOfFactor ==
    \A i \in 1..Len(ops) : FromTuple3(i) => IntervalsIndexValues(i)

\* the same for values of one axis
C25_ValuesOfOneAxis ==
    \A i \in 1..Len(ops) :
        (FromTuple3(i) /\ Len(hist[i].x.x.values.shape) = 1) => IntervalsIndexValues(i)

\* an accepted triple whose operator cannot be evaluated inside its range
C25_EvaluationFails ==
    /\ last.act = "call" /\ ~last.ok
    /\ FromTuple3(last.i)
    /\ last.t \in InsideRange(last.i)

\* ---------------------------------------------------------------- C26
\* what the operation that made ops[i] gives, from its operands as they are now
Remade(i) ==
    CASE hist[i].op = "totime" ->
            totime(hist[i].x.x, hist[i].x.dtype, hist[i].x.device).result
      [] hist[i].op = "view" -> View(Left(i), hist[i].x)
      [] hist[i].op = "adjoint" -> Adjoint(Left(i))
      [] hist[i].op = "neg" -> Neg(Left(i))
      [] hist[i].op = "mul" -> Mul(Left(i), hist[i].x)
      [] hist[i].op = "add" -> PyAdd(Left(i), Right(i))
      [] hist[i].op = "addT" -> PyAdd(Left(i), hist[i].x)
      [] hist[i].op = "raddT" -> PyAdd(hist[i].x, Left(i))

\* every operator is what it was made as, its operands being what they were
OperatorsKept == \A i \in 1..Len(ops) : ops[i] = Remade(i)

\* what an evaluation gave is what the operator evaluates to, whatever was done
\* since, and two evaluations of one operator at one t gave one value
EvaluatesAsBefore ==
    /\ \A k \in 1..Len(evals) : evals[k].val = Call(ops[evals[k].i], evals[k].t)
    /\ (Len(evals) = 2 /\ Earlier.i = Latest.i /\ Earlier.t = Latest.t) =>
           Earlier.val = Latest.val

\* C26: view, adjoint, negation, scaling and addition never modify their
\* operands: every operator that existed keeps its breakpoints, factors, base
\* matrices and static part, and evaluates at every t to what it did before.
C26_OperandsUnchanged == OperatorsKept /\ EvaluatesAsBefore

\* an operation was applied to a piecewise-constant operator that had been
\* evaluated, its value being held in its cache
C26_Witness ==
    /\ last.act \in {"view", "adjoint", "neg", "mul", "add"}
    /\ last.ok
    /\ ops[last.how.a].variant = "PWC"
    /\ cache[last.how.a].full
=============================================================================
